---- MODULE Spec2Model ----
(***************************************************************************)
(* Model of the ymn ring buffer (ringbuffer_base / oringbuffer /           *)
(* iringbuffer), its binary semaphores and the pipeline built on it.       *)
(*                                                                         *)
(* Every atomic load, store, read-modify-write and semaphore operation of  *)
(* the C++ code is one step of the thread that executes it; the code that  *)
(* a thread runs on its own locals between two such operations belongs to  *)
(* the step of the operation before it.  Memory is sequentially            *)
(* consistent: the steps of the threads interleave.                        *)
(***************************************************************************)
EXTENDS Integers, Sequences, FiniteSets, TLC

\* ----------------------------------------------------------------- bounds
Capacity == 2
MaxCount == 2
MaxVal == 3
MaxCancel == 1
MaxDropped == 2
MaxCalls == 4
MaxStages == 3
QueueCapacity == 1
MaxPiped == 2
MaxPosts == 2
MaxWaits == 2
MaxTimed == 1

\* -------------------------------------------------------------- constants
RINGBUFFER_NONBLOCKING_WRITE_SHIFT == 0
RINGBUFFER_NONBLOCKING_READ_SHIFT == 1
OK == 0
INTERNAL_ERROR == -1
WOULD_BLOCK == -2
OPERATION_CANCELLED == -3

\* The stages of the application's pipeline: producer, fm_stage, consumer.
EmitStages == 3

\* The null pointer a stage gets in place of a queue it does not have.
nullptr == -1

\* ringbuffer_role
NONE == "NONE"
PRODUCER == "PRODUCER"
CONSUMER == "CONSUMER"
Roles == {NONE, PRODUCER, CONSUMER}

\* The value of a default-constructed or moved-from element.
Empty == 0

\* The four flag sets of ringbuffer_base.hpp:56-74, each the set of bits set.
RINGBUFFER_RD_BLOCKING_WR_BLOCKING == {}
RINGBUFFER_RD_BLOCKING_WR_NONBLOCKING == {RINGBUFFER_NONBLOCKING_WRITE_SHIFT}
RINGBUFFER_RD_NONBLOCKING_WR_BLOCKING == {RINGBUFFER_NONBLOCKING_READ_SHIFT}
RINGBUFFER_RD_NONBLOCKING_WR_NONBLOCKING ==
    {RINGBUFFER_NONBLOCKING_READ_SHIFT, RINGBUFFER_NONBLOCKING_WRITE_SHIFT}
AllFlags ==
    {RINGBUFFER_RD_BLOCKING_WR_BLOCKING, RINGBUFFER_RD_BLOCKING_WR_NONBLOCKING,
     RINGBUFFER_RD_NONBLOCKING_WR_BLOCKING, RINGBUFFER_RD_NONBLOCKING_WR_NONBLOCKING}

\* ------------------------------------------------------------------ state
VARIABLES
    m_capacity,              \* queue -> capacity
    m_flags,                 \* queue -> set of the flag bits that are set
    m_produced,              \* queue -> counters.m_produced
    m_consumed,              \* queue -> counters.m_consumed
    m_dropped,               \* queue -> counters.m_dropped
    m_buffer,                \* queue -> [0 .. capacity-1 -> element]
    m_writing_semaphore,     \* queue -> m_ready of the writing semaphore
    m_reading_semaphore,     \* queue -> m_ready of the reading semaphore
    m_is_writing_cancelled,  \* queue -> BOOLEAN
    m_is_reading_cancelled,  \* queue -> BOOLEAN
    th,                      \* thread -> its position and locals in read/write/reset
    xc,                      \* the thread that calls cancel(): position and role
    accepted,                \* queue -> elements published by writes, in order
    delivered,               \* queue -> elements handed out by reads, in order
    ncancel,                 \* role -> number of cancel(role) calls that set the flag
    ncancelled,              \* role -> number of calls returned OPERATION_CANCELLED
    seq,                     \* TRUE: the calls are made one at a time
    logged,                  \* TRUE: the calls are counted and logged
    ncalls,                  \* logged: the number of calls completed
    log,                     \* logged: the last two calls completed, oldest first
    m_size,                  \* pipeline: the number of stages (0: no pipeline)
    m_running,               \* pipeline: m_running
    m_semaphore,             \* stage -> m_count of its m_semaphore
    stage,                   \* stage -> position of its thread in run()
    main,                    \* position of the thread that starts, stops and joins
    m_ready,                 \* binary_semaphore: m_ready
    m_mutex,                 \* binary_semaphore: the thread that holds m_mutex, or "free"
    m_condvar,               \* binary_semaphore: the threads blocked in m_condvar
    sm,                      \* thread -> its position in post/wait/wait_timeout
    tally,                   \* binary_semaphore: the calls made and returned so far
    m_irb,                   \* stage -> the queue it reads from, or nullptr
    m_orb                    \* stage -> the queue it writes to, or nullptr

rbvars == <<m_capacity, m_flags, m_produced, m_consumed, m_dropped, m_buffer,
            m_writing_semaphore, m_reading_semaphore,
            m_is_writing_cancelled, m_is_reading_cancelled>>
vars == <<m_capacity, m_flags, m_produced, m_consumed, m_dropped, m_buffer,
          m_writing_semaphore, m_reading_semaphore,
          m_is_writing_cancelled, m_is_reading_cancelled,
          th, xc, accepted, delivered, ncancel, ncancelled, seq, logged, ncalls, log,
          m_size, m_running, m_semaphore, stage, main,
          m_ready, m_mutex, m_condvar, sm, tally, m_irb, m_orb>>

\* The queues the stages were given.
wiring == <<m_irb, m_orb>>

\* The binary semaphore taken on its own, and everything else.
semvars == <<m_ready, m_mutex, m_condvar, sm, tally>>
nonsemvars == <<m_capacity, m_flags, m_produced, m_consumed, m_dropped, m_buffer,
                m_writing_semaphore, m_reading_semaphore,
                m_is_writing_cancelled, m_is_reading_cancelled,
                th, xc, accepted, delivered, ncancel, ncancelled, seq, logged, ncalls, log,
                m_size, m_running, m_semaphore, stage, main, m_irb, m_orb>>

Queues == DOMAIN m_capacity
Threads == DOMAIN th

Min(a, b) == IF a < b THEN a ELSE b

\* The first k elements of an array (a function on 0 .. n-1) as a sequence.
Prefix(a, k) == [i \in 1 .. k |-> a[i - 1]]

IsPrefix(s, t) == Len(s) <= Len(t) /\ \A i \in 1 .. Len(s) : s[i] = t[i]

\* m_flags.test(shift)
test(q, shift) == shift \in m_flags[q]

\* --------------------------------------------------------- thread locals
\* A thread outside every call.
IdleThread ==
    [pc |-> "idle", op |-> "none", q |-> 0, n |-> 0, kind |-> "none", calls |-> 0,
     produced |-> 0, consumed |-> 0, count |-> 0, idx |-> 0,
     split |-> 0, remaining |-> 0, off |-> 0,
     data |-> <<>>, req |-> <<>>, ret |-> 0]

\* return v: the call's locals die; the thread is left with v.
Return(r, v) == [IdleThread EXCEPT !.ret = v]

\* A thread that cannot take a step: it waits on a semaphore that is not ready.
Parked(r) ==
    \/ r.pc = "w_wait" /\ ~m_writing_semaphore[r.q]
    \/ r.pc = "r_wait" /\ ~m_reading_semaphore[r.q]

\* seq: a call begins only when no other call is running; logged: up to
\* MaxCalls calls are made.
Turn(t) ==
    /\ seq => /\ xc.pc = "idle"
              /\ \A u \in Threads \ {t} : th[u].pc = "idle" \/ Parked(th[u])
    /\ logged => ncalls + Cardinality({u \in Threads : th[u].pc # "idle"}) < MaxCalls

\* What the log keeps of a completed call: what was asked, what was returned,
\* whether the caller's callback returned false, the caller's elements (those
\* offered to a write, the array a read has filled), and the role passed to
\* reset() or cancel() (NONE for the calls that take no role).
Entry(op, n, ret, cb_false, data, role) ==
    [op |-> op, n |-> n, ret |-> ret, cb_false |-> cb_false, data |-> data,
     role |-> role]

NoCall == Entry("none", 0, 0, FALSE, <<>>, NONE)

\* The log after one more call.
Shift(e) == <<log[2], e>>

\* A stage function after its call to read() or write() has returned ret:
\* read_status != 1 makes it return false, which ends the loop of run(); a
\* stage with an output queue goes on to write what it has read; otherwise it
\* returns true and run() tests m_running again.
AfterCall(t, op, ret) ==
    IF op = "read"
    THEN IF ret # 1 THEN "done"
         ELSE IF t < m_size - 1 THEN "write" ELSE "loop"
    ELSE "loop"

\* pipeline: the step of a stage thread that returns from read() or write()
\* runs the stage function up to its next call or its return.
Staged(t) ==
    /\ UNCHANGED <<m_size, m_running, m_semaphore, main, semvars, wiring>>
    /\ stage' = IF t \in DOMAIN stage /\ th'[t].pc = "idle"
                THEN [stage EXCEPT ![t] = AfterCall(t, th[t].op, th'[t].ret)]
                ELSE stage

\* logged: a step that returns from a call appends the call to the log.
Logged(t) ==
    /\ Staged(t)
    /\ UNCHANGED <<seq, logged>>
    /\ IF logged /\ th'[t].pc = "idle"
       THEN /\ ncalls' = ncalls + 1
            /\ log' = Shift(Entry(th[t].op, th[t].n, th'[t].ret,
                                  th[t].pc \in {"w_xfer_failed", "r_xfer_failed"},
                                  IF th[t].op = "write"
                                  THEN [i \in 0 .. th[t].n - 1 |-> th[t].req[i + 1]]
                                  ELSE th[t].data,
                                  IF th[t].op = "reset" THEN th[t].kind ELSE NONE))
       ELSE UNCHANGED <<ncalls, log>>

\* logged: the first step of a call appends the call to the log if it returns.
LoggedCall(t, op, a) ==
    /\ UNCHANGED <<seq, logged, m_size, m_running, m_semaphore, stage, main, semvars,
                   wiring>>
    /\ IF logged /\ th'[t].pc = "idle"
       THEN /\ ncalls' = ncalls + 1
            /\ log' = Shift(Entry(op, a.n, th'[t].ret, FALSE, <<>>, NONE))
       ELSE UNCHANGED <<ncalls, log>>

\* ----------------------------------------------------- transfer helpers
\* dst and src are arrays; d0 and s0 the offsets the two pointers point at.
\* Stored repeating the first source element in every slot.
Stored_First(dst, d0, src, s0, count) ==
    [i \in DOMAIN dst |->
        IF i >= d0 /\ i < d0 + count THEN src[s0] ELSE dst[i]]

Stored(dst, d0, src, s0, count) ==
    [i \in DOMAIN dst |->
        IF i >= d0 /\ i < d0 + count THEN src[s0 + (i - d0)] ELSE dst[i]]

copy(dst, d0, src, s0, count) ==
    [ok |-> TRUE, dst |-> Stored(dst, d0, src, s0, count), src |-> src]

move(dst, d0, src, s0, count) ==
    [ok |-> TRUE,
     dst |-> Stored(dst, d0, src, s0, count),
     src |-> [i \in DOMAIN src |->
                 IF i >= s0 /\ i < s0 + count THEN Empty ELSE src[i]]]

\* The caller's callback is invoked once per element until it returns false.
\* fail_at is the invocation of this xfer that returns false (0: none does),
\* calls the number of invocations that returned true before this xfer, and
\* array what the callback writes from (producer) or notes what it was handed
\* in (consumer).
FunctorDone(fail_at, count) == IF fail_at > 0 THEN fail_at - 1 ELSE count

xfer_producer(dst, d0, array, calls, fail_at, count) ==
    [ok |-> fail_at = 0,
     dst |-> Stored(dst, d0, array, calls, FunctorDone(fail_at, count)),
     calls |-> calls + FunctorDone(fail_at, count)]

\* xfer_consumer reporting success whatever the callback returned.
xfer_consumer_IgnoresStatus(array, calls, fail_at, src, s0, count) ==
    [ok |-> TRUE,
     dst |-> Stored(array, calls, src, s0, FunctorDone(fail_at, count)),
     calls |-> calls + FunctorDone(fail_at, count)]

xfer_consumer(array, calls, fail_at, src, s0, count) ==
    [ok |-> fail_at = 0,
     dst |-> Stored(array, calls, src, s0, FunctorDone(fail_at, count)),
     calls |-> calls + FunctorDone(fail_at, count)]

\* The invocations of an xfer of cnt elements that may return false.
FailChoices(kind, cnt) == IF kind = "functor" THEN 0 .. cnt ELSE {0}

\* ringbuffer_base::get_counters, after its two loads.
get_counters(l_produced, l_consumed, capacity) ==
    IF l_produced < l_consumed THEN INTERNAL_ERROR
    ELSE IF (l_produced - l_consumed) > capacity THEN INTERNAL_ERROR
    ELSE OK

\* A thread calls get_counters(&produced, &consumed, &dropped) on queue q.
CountersCall(t, q) ==
    /\ th[t].pc = "idle"
    /\ Turn(t)
    /\ th' = [th EXCEPT ![t] =
                [IdleThread EXCEPT !.pc = "g_load_produced", !.op = "get_counters", !.q = q]]
    /\ UNCHANGED <<rbvars, xc, accepted, delivered, ncancel, ncancelled>>
    /\ Logged(t)

\* get_counters: l_produced = m_produced.load()
g_load_produced(t) ==
    /\ th[t].pc = "g_load_produced"
    /\ th' = [th EXCEPT ![t].pc = "g_load_consumed",
                        ![t].produced = m_produced[th[t].q]]
    /\ UNCHANGED <<rbvars, xc, accepted, delivered, ncancel, ncancelled>>
    /\ Logged(t)

\* get_counters: l_consumed = m_consumed.load(), the two checks, and the
\* stores through produced and consumed
g_load_consumed(t) ==
    /\ th[t].pc = "g_load_consumed"
    /\ LET r == th[t]
           l_consumed == m_consumed[r.q]
           rbs == get_counters(r.produced, l_consumed, m_capacity[r.q])
       IN  th' = [th EXCEPT ![t] =
                    IF rbs # OK THEN Return(r, rbs)
                    ELSE [r EXCEPT !.pc = "g_load_dropped", !.consumed = l_consumed]]
    /\ UNCHANGED <<rbvars, xc, accepted, delivered, ncancel, ncancelled>>
    /\ Logged(t)

\* get_counters: *dropped = m_dropped.load(); return OK; the caller is left
\* with the three values.
g_load_dropped(t) ==
    /\ th[t].pc = "g_load_dropped"
    /\ th' = [th EXCEPT ![t] =
                [Return(th[t], OK) EXCEPT
                    !.data = <<th[t].produced, th[t].consumed, m_dropped[th[t].q]>>]]
    /\ UNCHANGED <<rbvars, xc, accepted, delivered, ncancel, ncancelled>>
    /\ Logged(t)

\* ------------------------------------------------------ oringbuffer::write
\* What the public overloads hand to the private write(): one element or an
\* array of N >= 1 elements by copy or by move, or a callback and a count.
WriteOverloads ==
    {[n |-> n, kind |-> k] : n \in 1 .. MaxCount, k \in {"copy", "move"}}
    \cup {[n |-> n, kind |-> "functor"] : n \in 0 .. MaxCount}

\* The n elements a call offers: the values that follow those published so far
\* (what an earlier call has not taken, the caller offers again), so that each
\* element is recognised when it is read.
Fresh(q, n) == [i \in 0 .. n - 1 |-> Len(accepted[q]) + 1 + i]

\* WriteOf without the test of the count on entry: a call with no elements goes
\* on to load the counters like any other.
WriteOf_NoZeroCheck(t, q, a, data) ==
    /\ th[t].pc = "idle"
    /\ Turn(t)
    /\ Len(accepted[q]) + a.n <= MaxVal
    /\ m_dropped[q] < MaxDropped
    /\ th' = [th EXCEPT ![t] =
                [IdleThread EXCEPT !.pc = "w_load_produced", !.op = "write", !.q = q,
                                   !.n = a.n, !.count = a.n, !.kind = a.kind,
                                   !.data = data,
                                   !.req = data]]
    /\ UNCHANGED <<rbvars, xc, accepted, delivered, ncancel, ncancelled>>
    /\ LoggedCall(t, "write", a)

\* A thread calls write() on queue q with the a.n elements of the array data:
\* if (0 == count) return 0;
WriteOf(t, q, a, data) ==
    /\ th[t].pc = "idle"
    /\ Turn(t)
    /\ Len(accepted[q]) + a.n <= MaxVal
    /\ m_dropped[q] < MaxDropped
    /\ th' = [th EXCEPT ![t] =
                IF 0 = a.n THEN Return(th[t], 0)
                ELSE [IdleThread EXCEPT !.pc = "w_load_produced", !.op = "write", !.q = q,
                                        !.n = a.n, !.count = a.n, !.kind = a.kind,
                                        !.data = data,
                                        !.req = Prefix(data, a.n)]]
    /\ UNCHANGED <<rbvars, xc, accepted, delivered, ncancel, ncancelled>>
    /\ LoggedCall(t, "write", a)

\* A thread calls write() on queue q with elements not written before.
WriteCall(t, q, a) == WriteOf(t, q, a, Fresh(q, a.n))

\* get_counters: l_produced = m_produced.load()
w_load_produced(t) ==
    /\ th[t].pc = "w_load_produced"
    /\ th' = [th EXCEPT ![t].pc = "w_load_consumed",
                        ![t].produced = m_produced[th[t].q]]
    /\ UNCHANGED <<rbvars, xc, accepted, delivered, ncancel, ncancelled>>
    /\ Logged(t)

\* WritePlan without "if (count > free_elements) count = free_elements".
WritePlan_NoClamp(r, capacity, free_elements) ==
    LET count == r.count
        write_idx == r.produced % capacity
        split == IF (write_idx + count) > capacity THEN capacity - write_idx ELSE 0
    IN  [r EXCEPT !.pc = IF split > 0 THEN "w_xfer_split" ELSE "w_xfer",
                  !.count = count, !.idx = write_idx, !.split = split,
                  !.remaining = count]

\* The locals of write() once the room is known: the clamp and the split.
WritePlan(r, capacity, free_elements) ==
    LET count == IF r.count > free_elements THEN free_elements ELSE r.count
        write_idx == r.produced % capacity
        split == IF (write_idx + count) > capacity THEN capacity - write_idx ELSE 0
    IN  [r EXCEPT !.pc = IF split > 0 THEN "w_xfer_split" ELSE "w_xfer",
                  !.count = count, !.idx = write_idx, !.split = split,
                  !.remaining = count]

\* WriteDecide waiting for room whatever the flags say.
WriteDecide_Waits(r, l_consumed, capacity, nonblocking) ==
    LET r1 == [r EXCEPT !.consumed = l_consumed]
        free_elements == capacity - (r.produced - l_consumed)
    IN  IF get_counters(r.produced, l_consumed, capacity) # OK
            THEN Return(r1, get_counters(r.produced, l_consumed, capacity))
        ELSE IF free_elements = 0
            THEN [r1 EXCEPT !.pc = "w_wait"]
        ELSE WritePlan(r1, capacity, free_elements)

\* What write() does with the counters it has read.
WriteDecide(r, l_consumed, capacity, nonblocking) ==
    LET r1 == [r EXCEPT !.consumed = l_consumed]
        free_elements == capacity - (r.produced - l_consumed)
    IN  IF get_counters(r.produced, l_consumed, capacity) # OK
            THEN Return(r1, get_counters(r.produced, l_consumed, capacity))
        ELSE IF free_elements = 0
            THEN [r1 EXCEPT !.pc = IF nonblocking THEN "w_dropped" ELSE "w_wait"]
        ELSE WritePlan(r1, capacity, free_elements)

\* get_counters: l_consumed = m_consumed.load(), its checks, and free_elements
w_load_consumed(t) ==
    /\ th[t].pc = "w_load_consumed"
    /\ th' = [th EXCEPT ![t] =
                WriteDecide(th[t], m_consumed[th[t].q], m_capacity[th[t].q],
                            test(th[t].q, RINGBUFFER_NONBLOCKING_WRITE_SHIFT))]
    /\ UNCHANGED <<rbvars, xc, accepted, delivered, ncancel, ncancelled>>
    /\ Logged(t)

\* Dropped counting two for one rejected write.
Dropped_Twice(d) == d + 2

\* Dropped counting down.
Dropped_Less(d) == d - 1

\* m_dropped++
Dropped(d) == d + 1

\* m_counters.m_dropped++; return WOULD_BLOCK;
w_dropped(t) ==
    /\ th[t].pc = "w_dropped"
    /\ m_dropped' = [m_dropped EXCEPT ![th[t].q] = Dropped(@)]
    /\ th' = [th EXCEPT ![t] = Return(th[t], WOULD_BLOCK)]
    /\ UNCHANGED <<m_capacity, m_flags, m_produced, m_consumed, m_buffer,
                   m_writing_semaphore, m_reading_semaphore,
                   m_is_writing_cancelled, m_is_reading_cancelled,
                   xc, accepted, delivered, ncancel, ncancelled>>
    /\ Logged(t)

\* m_writing_semaphore.wait()
w_wait(t) ==
    /\ th[t].pc = "w_wait"
    /\ m_writing_semaphore[th[t].q]
    /\ m_writing_semaphore' = [m_writing_semaphore EXCEPT ![th[t].q] = FALSE]
    /\ th' = [th EXCEPT ![t].pc = "w_cancel_test"]
    /\ UNCHANGED <<m_capacity, m_flags, m_produced, m_consumed, m_dropped, m_buffer,
                   m_reading_semaphore,
                   m_is_writing_cancelled, m_is_reading_cancelled,
                   xc, accepted, delivered, ncancel, ncancelled>>
    /\ Logged(t)

\* AfterWait without the test of the cancel flag.
AfterWait_NoCancel(op, cancelled) ==
    op \o "_load_produced"

\* Where a woken call goes on what it reads in the cancel flag.
AfterWait(op, cancelled) ==
    IF cancelled THEN op \o "_cancel_clear" ELSE op \o "_load_produced"

\* if (m_is_writing_cancelled)
w_cancel_test(t) ==
    /\ th[t].pc = "w_cancel_test"
    /\ th' = [th EXCEPT ![t].pc = AfterWait("w", m_is_writing_cancelled[th[t].q])]
    /\ UNCHANGED <<rbvars, xc, accepted, delivered, ncancel, ncancelled>>
    /\ Logged(t)

\* m_is_writing_cancelled = false; return OPERATION_CANCELLED;
w_cancel_clear(t) ==
    /\ th[t].pc = "w_cancel_clear"
    /\ m_is_writing_cancelled' = [m_is_writing_cancelled EXCEPT ![th[t].q] = FALSE]
    /\ th' = [th EXCEPT ![t] = Return(th[t], OPERATION_CANCELLED)]
    /\ ncancelled' = [ncancelled EXCEPT ![PRODUCER] = @ + 1]
    /\ UNCHANGED <<m_capacity, m_flags, m_produced, m_consumed, m_dropped, m_buffer,
                   m_writing_semaphore, m_reading_semaphore, m_is_reading_cancelled,
                   xc, accepted, delivered, ncancel>>
    /\ Logged(t)

\* xfer(m_buffer + write_idx, data, cnt) for the three xfer functions.
WriteXfer(r, buffer, cnt, fail_at) ==
    CASE r.kind = "copy" ->
            LET x == copy(buffer, r.idx, r.data, r.off, cnt)
            IN  [ok |-> x.ok, buffer |-> x.dst, data |-> x.src, calls |-> r.calls]
      [] r.kind = "move" ->
            LET x == move(buffer, r.idx, r.data, r.off, cnt)
            IN  [ok |-> x.ok, buffer |-> x.dst, data |-> x.src, calls |-> r.calls]
      [] OTHER ->
            LET x == xfer_producer(buffer, r.idx, r.data, r.calls, fail_at, cnt)
            IN  [ok |-> x.ok, buffer |-> x.dst, data |-> r.data, calls |-> x.calls]

\* w_xfer_split without "data += split".
w_xfer_split_SameData(t) ==
    /\ th[t].pc = "w_xfer_split"
    /\ \E fail_at \in FailChoices(th[t].kind, th[t].split) :
       LET r == th[t]
           x == WriteXfer(r, m_buffer[r.q], r.split, fail_at)
           r1 == [r EXCEPT !.data = x.data, !.calls = x.calls]
       IN  /\ m_buffer' = [m_buffer EXCEPT ![r.q] = x.buffer]
           /\ th' = [th EXCEPT ![t] =
                       IF ~x.ok THEN [r1 EXCEPT !.pc = "w_xfer_failed"]
                       ELSE [r1 EXCEPT !.pc = "w_xfer",
                                       !.remaining = r.remaining - r.split,
                                       !.idx = 0]]
    /\ UNCHANGED <<m_capacity, m_flags, m_produced, m_consumed, m_dropped,
                   m_writing_semaphore, m_reading_semaphore,
                   m_is_writing_cancelled, m_is_reading_cancelled,
                   xc, accepted, delivered, ncancel, ncancelled>>
    /\ Logged(t)

\* if (split > 0) { xfer(.., split); data += split; remaining -= split; write_idx = 0; }
w_xfer_split(t) ==
    /\ th[t].pc = "w_xfer_split"
    /\ \E fail_at \in FailChoices(th[t].kind, th[t].split) :
       LET r == th[t]
           x == WriteXfer(r, m_buffer[r.q], r.split, fail_at)
           r1 == [r EXCEPT !.data = x.data, !.calls = x.calls]
       IN  /\ m_buffer' = [m_buffer EXCEPT ![r.q] = x.buffer]
           /\ th' = [th EXCEPT ![t] =
                       IF ~x.ok THEN [r1 EXCEPT !.pc = "w_xfer_failed"]
                       ELSE [r1 EXCEPT !.pc = "w_xfer", !.off = r.off + r.split,
                                       !.remaining = r.remaining - r.split,
                                       !.idx = 0]]
    /\ UNCHANGED <<m_capacity, m_flags, m_produced, m_consumed, m_dropped,
                   m_writing_semaphore, m_reading_semaphore,
                   m_is_writing_cancelled, m_is_reading_cancelled,
                   xc, accepted, delivered, ncancel, ncancelled>>
    /\ Logged(t)

\* xfer(m_buffer + write_idx, data, remaining)
w_xfer(t) ==
    /\ th[t].pc = "w_xfer"
    /\ \E fail_at \in FailChoices(th[t].kind, th[t].remaining) :
       LET r == th[t]
           x == WriteXfer(r, m_buffer[r.q], r.remaining, fail_at)
           r1 == [r EXCEPT !.data = x.data, !.calls = x.calls]
       IN  /\ m_buffer' = [m_buffer EXCEPT ![r.q] = x.buffer]
           /\ th' = [th EXCEPT ![t] =
                       IF ~x.ok THEN [r1 EXCEPT !.pc = "w_xfer_failed"]
                       ELSE [r1 EXCEPT !.pc = "w_store"]]
    /\ UNCHANGED <<m_capacity, m_flags, m_produced, m_consumed, m_dropped,
                   m_writing_semaphore, m_reading_semaphore,
                   m_is_writing_cancelled, m_is_reading_cancelled,
                   xc, accepted, delivered, ncancel, ncancelled>>
    /\ Logged(t)

\* if (false == xfer(...)) return INTERNAL_ERROR;
w_xfer_failed(t) ==
    /\ th[t].pc = "w_xfer_failed"
    /\ th' = [th EXCEPT ![t] = Return(th[t], INTERNAL_ERROR)]
    /\ UNCHANGED <<rbvars, xc, accepted, delivered, ncancel, ncancelled>>
    /\ Logged(t)

\* The value write() stores in m_produced.
Published(produced, count) == produced + count

\* m_produced.store(produced + count)
w_store(t) ==
    /\ th[t].pc = "w_store"
    /\ LET r == th[t]
       IN  /\ m_produced' = [m_produced EXCEPT ![r.q] = Published(r.produced, r.count)]
           /\ accepted' = [accepted EXCEPT ![r.q] = @ \o SubSeq(r.req, 1, r.count)]
           /\ th' = [th EXCEPT ![t] =
                       IF ~test(r.q, RINGBUFFER_NONBLOCKING_READ_SHIFT)
                       THEN [r EXCEPT !.pc = "w_post"]
                       ELSE Return(r, r.count)]
    /\ UNCHANGED <<m_capacity, m_flags, m_consumed, m_dropped, m_buffer,
                   m_writing_semaphore, m_reading_semaphore,
                   m_is_writing_cancelled, m_is_reading_cancelled,
                   xc, delivered, ncancel, ncancelled>>
    /\ Logged(t)

\* w_post posting the writer's own semaphore instead of the reader's.
w_post_OwnSemaphore(t) ==
    /\ th[t].pc = "w_post"
    /\ m_writing_semaphore' = [m_writing_semaphore EXCEPT ![th[t].q] = TRUE]
    /\ th' = [th EXCEPT ![t] = Return(th[t], th[t].count)]
    /\ UNCHANGED <<m_capacity, m_flags, m_produced, m_consumed, m_dropped, m_buffer,
                   m_reading_semaphore,
                   m_is_writing_cancelled, m_is_reading_cancelled,
                   xc, accepted, delivered, ncancel, ncancelled>>
    /\ Logged(t)

\* m_reading_semaphore.post(); return count;
w_post(t) ==
    /\ th[t].pc = "w_post"
    /\ m_reading_semaphore' = [m_reading_semaphore EXCEPT ![th[t].q] = TRUE]
    /\ th' = [th EXCEPT ![t] = Return(th[t], th[t].count)]
    /\ UNCHANGED <<m_capacity, m_flags, m_produced, m_consumed, m_dropped, m_buffer,
                   m_writing_semaphore,
                   m_is_writing_cancelled, m_is_reading_cancelled,
                   xc, accepted, delivered, ncancel, ncancelled>>
    /\ Logged(t)

\* One step of a thread inside write().
WriteStep(t) ==
    \/ w_load_produced(t)
    \/ w_load_consumed(t)
    \/ w_dropped(t)
    \/ w_wait(t)
    \/ w_cancel_test(t)
    \/ w_cancel_clear(t)
    \/ w_xfer_split(t)
    \/ w_xfer(t)
    \/ w_xfer_failed(t)
    \/ w_store(t)
    \/ w_post(t)

\* ------------------------------------------------------- iringbuffer::read
\* What the public overloads hand to the private read().
ReadOverloads ==
    {[n |-> n, kind |-> k] : n \in 1 .. MaxCount, k \in {"copy", "move"}}
    \cup {[n |-> n, kind |-> "functor"] : n \in 0 .. MaxCount}

\* A thread calls read() on queue q, its array default-constructed:
\* if (0 == count) return 0;
ReadCall(t, q, a) ==
    /\ th[t].pc = "idle"
    /\ Turn(t)
    /\ th' = [th EXCEPT ![t] =
                IF 0 = a.n THEN Return(th[t], 0)
                ELSE [IdleThread EXCEPT !.pc = "r_load_produced", !.op = "read", !.q = q,
                                        !.n = a.n, !.count = a.n, !.kind = a.kind,
                                        !.data = [i \in 0 .. a.n - 1 |-> Empty]]]
    /\ UNCHANGED <<rbvars, xc, accepted, delivered, ncancel, ncancelled>>
    /\ LoggedCall(t, "read", a)

\* get_counters: l_produced = m_produced.load()
r_load_produced(t) ==
    /\ th[t].pc = "r_load_produced"
    /\ th' = [th EXCEPT ![t].pc = "r_load_consumed",
                        ![t].produced = m_produced[th[t].q]]
    /\ UNCHANGED <<rbvars, xc, accepted, delivered, ncancel, ncancelled>>
    /\ Logged(t)

\* ReadPlan with read_idx taken from produced instead of consumed.
ReadPlan_WrongIndex(r, capacity, available_elements) ==
    LET count == IF r.count > available_elements THEN available_elements ELSE r.count
        read_idx == r.produced % capacity
        split == IF (read_idx + count) > capacity THEN capacity - read_idx ELSE 0
    IN  [r EXCEPT !.pc = IF split > 0 THEN "r_xfer_split" ELSE "r_xfer",
                  !.count = count, !.idx = read_idx, !.split = split,
                  !.remaining = count]

\* The locals of read() once the fill is known: the clamp and the split.
ReadPlan(r, capacity, available_elements) ==
    LET count == IF r.count > available_elements THEN available_elements ELSE r.count
        read_idx == r.consumed % capacity
        split == IF (read_idx + count) > capacity THEN capacity - read_idx ELSE 0
    IN  [r EXCEPT !.pc = IF split > 0 THEN "r_xfer_split" ELSE "r_xfer",
                  !.count = count, !.idx = read_idx, !.split = split,
                  !.remaining = count]

\* ReadDecide returning a count of 0 from an empty buffer.
ReadDecide_ReturnsEmpty(r, l_consumed, capacity, nonblocking) ==
    LET r1 == [r EXCEPT !.consumed = l_consumed]
        available_elements == r.produced - l_consumed
    IN  IF get_counters(r.produced, l_consumed, capacity) # OK
            THEN Return(r1, get_counters(r.produced, l_consumed, capacity))
        ELSE IF available_elements = 0
            THEN Return(r1, 0)
        ELSE ReadPlan(r1, capacity, available_elements)

\* What read() does with the counters it has read.
ReadDecide(r, l_consumed, capacity, nonblocking) ==
    LET r1 == [r EXCEPT !.consumed = l_consumed]
        available_elements == r.produced - l_consumed
    IN  IF get_counters(r.produced, l_consumed, capacity) # OK
            THEN Return(r1, get_counters(r.produced, l_consumed, capacity))
        ELSE IF available_elements = 0
            THEN IF nonblocking THEN Return(r1, WOULD_BLOCK)
                 ELSE [r1 EXCEPT !.pc = "r_wait"]
        ELSE ReadPlan(r1, capacity, available_elements)

\* get_counters: l_consumed = m_consumed.load(), its checks, available_elements
r_load_consumed(t) ==
    /\ th[t].pc = "r_load_consumed"
    /\ th' = [th EXCEPT ![t] =
                ReadDecide(th[t], m_consumed[th[t].q], m_capacity[th[t].q],
                           test(th[t].q, RINGBUFFER_NONBLOCKING_READ_SHIFT))]
    /\ UNCHANGED <<rbvars, xc, accepted, delivered, ncancel, ncancelled>>
    /\ Logged(t)

\* m_reading_semaphore.wait()
r_wait(t) ==
    /\ th[t].pc = "r_wait"
    /\ m_reading_semaphore[th[t].q]
    /\ m_reading_semaphore' = [m_reading_semaphore EXCEPT ![th[t].q] = FALSE]
    /\ th' = [th EXCEPT ![t].pc = "r_cancel_test"]
    /\ UNCHANGED <<m_capacity, m_flags, m_produced, m_consumed, m_dropped, m_buffer,
                   m_writing_semaphore,
                   m_is_writing_cancelled, m_is_reading_cancelled,
                   xc, accepted, delivered, ncancel, ncancelled>>
    /\ Logged(t)

\* if (m_is_reading_cancelled)
r_cancel_test(t) ==
    /\ th[t].pc = "r_cancel_test"
    /\ th' = [th EXCEPT ![t].pc = AfterWait("r", m_is_reading_cancelled[th[t].q])]
    /\ UNCHANGED <<rbvars, xc, accepted, delivered, ncancel, ncancelled>>
    /\ Logged(t)

\* r_cancel_clear returning without the store to the cancel flag.
r_cancel_clear_KeepsFlag(t) ==
    /\ th[t].pc = "r_cancel_clear"
    /\ th' = [th EXCEPT ![t] = Return(th[t], OPERATION_CANCELLED)]
    /\ ncancelled' = [ncancelled EXCEPT ![CONSUMER] = @ + 1]
    /\ UNCHANGED <<rbvars, xc, accepted, delivered, ncancel>>
    /\ Logged(t)

\* m_is_reading_cancelled = false; return OPERATION_CANCELLED;
r_cancel_clear(t) ==
    /\ th[t].pc = "r_cancel_clear"
    /\ m_is_reading_cancelled' = [m_is_reading_cancelled EXCEPT ![th[t].q] = FALSE]
    /\ th' = [th EXCEPT ![t] = Return(th[t], OPERATION_CANCELLED)]
    /\ ncancelled' = [ncancelled EXCEPT ![CONSUMER] = @ + 1]
    /\ UNCHANGED <<m_capacity, m_flags, m_produced, m_consumed, m_dropped, m_buffer,
                   m_writing_semaphore, m_reading_semaphore, m_is_writing_cancelled,
                   xc, accepted, delivered, ncancel>>
    /\ Logged(t)

\* xfer(data, m_buffer + read_idx, cnt) for the three xfer functions.
ReadXfer(r, buffer, cnt, fail_at) ==
    CASE r.kind = "copy" ->
            LET x == copy(r.data, r.off, buffer, r.idx, cnt)
            IN  [ok |-> x.ok, buffer |-> x.src, data |-> x.dst, calls |-> r.calls]
      [] r.kind = "move" ->
            LET x == move(r.data, r.off, buffer, r.idx, cnt)
            IN  [ok |-> x.ok, buffer |-> x.src, data |-> x.dst, calls |-> r.calls]
      [] OTHER ->
            LET x == xfer_consumer(r.data, r.calls, fail_at, buffer, r.idx, cnt)
            IN  [ok |-> x.ok, buffer |-> buffer, data |-> x.dst, calls |-> x.calls]

\* if (split > 0) { xfer(.., split); data += split; remaining -= split; read_idx = 0; }
r_xfer_split(t) ==
    /\ th[t].pc = "r_xfer_split"
    /\ \E fail_at \in FailChoices(th[t].kind, th[t].split) :
       LET r == th[t]
           x == ReadXfer(r, m_buffer[r.q], r.split, fail_at)
           r1 == [r EXCEPT !.data = x.data, !.calls = x.calls]
       IN  /\ m_buffer' = [m_buffer EXCEPT ![r.q] = x.buffer]
           /\ th' = [th EXCEPT ![t] =
                       IF ~x.ok THEN [r1 EXCEPT !.pc = "r_xfer_failed"]
                       ELSE [r1 EXCEPT !.pc = "r_xfer", !.off = r.off + r.split,
                                       !.remaining = r.remaining - r.split,
                                       !.idx = 0]]
    /\ UNCHANGED <<m_capacity, m_flags, m_produced, m_consumed, m_dropped,
                   m_writing_semaphore, m_reading_semaphore,
                   m_is_writing_cancelled, m_is_reading_cancelled,
                   xc, accepted, delivered, ncancel, ncancelled>>
    /\ Logged(t)

\* xfer(data, m_buffer + read_idx, remaining)
r_xfer(t) ==
    /\ th[t].pc = "r_xfer"
    /\ \E fail_at \in FailChoices(th[t].kind, th[t].remaining) :
       LET r == th[t]
           x == ReadXfer(r, m_buffer[r.q], r.remaining, fail_at)
           r1 == [r EXCEPT !.data = x.data, !.calls = x.calls]
       IN  /\ m_buffer' = [m_buffer EXCEPT ![r.q] = x.buffer]
           /\ th' = [th EXCEPT ![t] =
                       IF ~x.ok THEN [r1 EXCEPT !.pc = "r_xfer_failed"]
                       ELSE [r1 EXCEPT !.pc = "r_store"]]
    /\ UNCHANGED <<m_capacity, m_flags, m_produced, m_consumed, m_dropped,
                   m_writing_semaphore, m_reading_semaphore,
                   m_is_writing_cancelled, m_is_reading_cancelled,
                   xc, accepted, delivered, ncancel, ncancelled>>
    /\ Logged(t)

\* if (false == xfer(...)) return INTERNAL_ERROR;
r_xfer_failed(t) ==
    /\ th[t].pc = "r_xfer_failed"
    /\ th' = [th EXCEPT ![t] = Return(th[t], INTERNAL_ERROR)]
    /\ UNCHANGED <<rbvars, xc, accepted, delivered, ncancel, ncancelled>>
    /\ Logged(t)

\* Retired advancing by one element whatever was transferred.
Retired_One(consumed, count) == consumed + 1

\* The value read() stores in m_consumed.
Retired(consumed, count) == consumed + count

\* r_store going on to post the writing semaphore whatever the flags say.
r_store_AlwaysPosts(t) ==
    /\ th[t].pc = "r_store"
    /\ LET r == th[t]
       IN  /\ m_consumed' = [m_consumed EXCEPT ![r.q] = Retired(r.consumed, r.count)]
           /\ delivered' = [delivered EXCEPT ![r.q] = @ \o Prefix(r.data, r.count)]
           /\ th' = [th EXCEPT ![t] = [r EXCEPT !.pc = "r_post"]]
    /\ UNCHANGED <<m_capacity, m_flags, m_produced, m_dropped, m_buffer,
                   m_writing_semaphore, m_reading_semaphore,
                   m_is_writing_cancelled, m_is_reading_cancelled,
                   xc, accepted, ncancel, ncancelled>>
    /\ Logged(t)

\* m_consumed.store(consumed + count)
r_store(t) ==
    /\ th[t].pc = "r_store"
    /\ LET r == th[t]
       IN  /\ m_consumed' = [m_consumed EXCEPT ![r.q] = Retired(r.consumed, r.count)]
           /\ delivered' = [delivered EXCEPT ![r.q] = @ \o Prefix(r.data, r.count)]
           /\ th' = [th EXCEPT ![t] =
                       IF ~test(r.q, RINGBUFFER_NONBLOCKING_WRITE_SHIFT)
                       THEN [r EXCEPT !.pc = "r_post"]
                       ELSE Return(r, r.count)]
    /\ UNCHANGED <<m_capacity, m_flags, m_produced, m_dropped, m_buffer,
                   m_writing_semaphore, m_reading_semaphore,
                   m_is_writing_cancelled, m_is_reading_cancelled,
                   xc, accepted, ncancel, ncancelled>>
    /\ Logged(t)

\* r_post posting the reader's own semaphore instead of the writer's.
r_post_OwnSemaphore(t) ==
    /\ th[t].pc = "r_post"
    /\ m_reading_semaphore' = [m_reading_semaphore EXCEPT ![th[t].q] = TRUE]
    /\ th' = [th EXCEPT ![t] = Return(th[t], th[t].count)]
    /\ UNCHANGED <<m_capacity, m_flags, m_produced, m_consumed, m_dropped, m_buffer,
                   m_writing_semaphore,
                   m_is_writing_cancelled, m_is_reading_cancelled,
                   xc, accepted, delivered, ncancel, ncancelled>>
    /\ Logged(t)

\* m_writing_semaphore.post(); return count;
r_post(t) ==
    /\ th[t].pc = "r_post"
    /\ m_writing_semaphore' = [m_writing_semaphore EXCEPT ![th[t].q] = TRUE]
    /\ th' = [th EXCEPT ![t] = Return(th[t], th[t].count)]
    /\ UNCHANGED <<m_capacity, m_flags, m_produced, m_consumed, m_dropped, m_buffer,
                   m_reading_semaphore,
                   m_is_writing_cancelled, m_is_reading_cancelled,
                   xc, accepted, delivered, ncancel, ncancelled>>
    /\ Logged(t)

\* One step of a thread inside read().
ReadStep(t) ==
    \/ r_load_produced(t)
    \/ r_load_consumed(t)
    \/ r_wait(t)
    \/ r_cancel_test(t)
    \/ r_cancel_clear(t)
    \/ r_xfer_split(t)
    \/ r_xfer(t)
    \/ r_xfer_failed(t)
    \/ r_store(t)
    \/ r_post(t)

\* --------------------------------------------------- ringbuffer_base::cancel
\* CancelTarget without the tests of the flags: cancel(role) acts on a
\* non-blocking side as it does on a blocking one.
CancelTarget_IgnoresFlags(q, role) ==
    IF role = PRODUCER THEN "x_post_writing"
    ELSE IF role = CONSUMER THEN "x_post_reading"
    ELSE "idle"

\* CancelTarget with cancel(CONSUMER) doing nothing.
CancelTarget_ProducerOnly(q, role) ==
    IF role = PRODUCER /\ ~test(q, RINGBUFFER_NONBLOCKING_WRITE_SHIFT) THEN "x_post_writing"
    ELSE "idle"

\* What cancel(role) does before its post(): the flag it sets, if any.
CancelTarget(q, role) ==
    IF role = PRODUCER /\ ~test(q, RINGBUFFER_NONBLOCKING_WRITE_SHIFT) THEN "x_post_writing"
    ELSE IF role = CONSUMER /\ ~test(q, RINGBUFFER_NONBLOCKING_READ_SHIFT) THEN "x_post_reading"
    ELSE "idle"

\* cancel(role), up to and including the store to the cancel flag.
CancelCall(q, role) ==
    /\ xc.pc = "idle"
    /\ seq => \A u \in Threads : th[u].pc = "idle" \/ Parked(th[u])
    /\ logged => ncalls + Cardinality({u \in Threads : th[u].pc # "idle"}) < MaxCalls
    /\ m_size > 0 \/ ncancel[PRODUCER] + ncancel[CONSUMER] < MaxCancel
    /\ ncancel' = IF CancelTarget(q, role) = "idle" THEN ncancel
                  ELSE [ncancel EXCEPT ![role] = @ + 1]
    /\ xc' = [pc |-> CancelTarget(q, role), q |-> q]
    /\ m_is_writing_cancelled' =
          IF CancelTarget(q, role) = "x_post_writing"
          THEN [m_is_writing_cancelled EXCEPT ![q] = TRUE]
          ELSE m_is_writing_cancelled
    /\ m_is_reading_cancelled' =
          IF CancelTarget(q, role) = "x_post_reading"
          THEN [m_is_reading_cancelled EXCEPT ![q] = TRUE]
          ELSE m_is_reading_cancelled
    /\ UNCHANGED <<m_capacity, m_flags, m_produced, m_consumed, m_dropped, m_buffer,
                   m_writing_semaphore, m_reading_semaphore,
                   th, accepted, delivered, ncancelled, seq, logged,
                   m_size, m_running, m_semaphore, stage, semvars, wiring>>
    /\ main' = IF main.pc = "stop" THEN [main EXCEPT !.n = @ + 1] ELSE main
    /\ IF logged
       THEN /\ ncalls' = ncalls + 1
            /\ log' = Shift(Entry("cancel", 0, 0, FALSE, <<>>, role))
       ELSE UNCHANGED <<ncalls, log>>

\* m_writing_semaphore.post()
x_post_writing ==
    /\ xc.pc = "x_post_writing"
    /\ m_writing_semaphore' = [m_writing_semaphore EXCEPT ![xc.q] = TRUE]
    /\ xc' = [xc EXCEPT !.pc = "idle"]
    /\ UNCHANGED <<m_capacity, m_flags, m_produced, m_consumed, m_dropped, m_buffer,
                   m_reading_semaphore,
                   m_is_writing_cancelled, m_is_reading_cancelled,
                   th, accepted, delivered, ncancel, ncancelled, seq, logged, ncalls, log,
                   m_size, m_running, m_semaphore, stage, main, semvars, wiring>>

\* x_post_reading leaving the reading semaphore as it is.
x_post_reading_NoPost ==
    /\ xc.pc = "x_post_reading"
    /\ xc' = [xc EXCEPT !.pc = "idle"]
    /\ UNCHANGED <<rbvars,
                   th, accepted, delivered, ncancel, ncancelled, seq, logged, ncalls, log,
                   m_size, m_running, m_semaphore, stage, main, semvars, wiring>>

\* m_reading_semaphore.post()
x_post_reading ==
    /\ xc.pc = "x_post_reading"
    /\ m_reading_semaphore' = [m_reading_semaphore EXCEPT ![xc.q] = TRUE]
    /\ xc' = [xc EXCEPT !.pc = "idle"]
    /\ UNCHANGED <<m_capacity, m_flags, m_produced, m_consumed, m_dropped, m_buffer,
                   m_writing_semaphore,
                   m_is_writing_cancelled, m_is_reading_cancelled,
                   th, accepted, delivered, ncancel, ncancelled, seq, logged, ncalls, log,
                   m_size, m_running, m_semaphore, stage, main, semvars, wiring>>

CancelStep == x_post_writing \/ x_post_reading

\* ---------------------------------------------------- ringbuffer_base::reset
\* The first step of reset(role).
ResetEntry(role) ==
    IF role = PRODUCER THEN "reset_load_consumed"
    ELSE IF role = CONSUMER THEN "reset_load_produced"
    ELSE "reset_zero_produced"

\* A thread calls reset(role) on queue q while no call is in flight on the
\* side it resets.
ResetCall(t, q, role) ==
    /\ th[t].pc = "idle"
    /\ Turn(t)
    /\ role = NONE => \A u \in Threads : th[u].pc = "idle"
    /\ th' = [th EXCEPT ![t] =
                [IdleThread EXCEPT !.pc = ResetEntry(role), !.op = "reset", !.q = q, !.kind = role]]
    /\ UNCHANGED <<rbvars, xc, accepted, delivered, ncancel, ncancelled>>
    /\ Logged(t)

\* PRODUCER: consumed = m_consumed.load()
reset_load_consumed(t) ==
    /\ th[t].pc = "reset_load_consumed"
    /\ th' = [th EXCEPT ![t].pc = "reset_store_produced",
                        ![t].consumed = m_consumed[th[t].q]]
    /\ UNCHANGED <<rbvars, xc, accepted, delivered, ncancel, ncancelled>>
    /\ Logged(t)

\* reset_store_produced storing 0 instead of the value loaded from m_consumed.
reset_store_produced_Zero(t) ==
    /\ th[t].pc = "reset_store_produced"
    /\ m_produced' = [m_produced EXCEPT ![th[t].q] = 0]
    /\ th' = [th EXCEPT ![t].pc = "reset_store_dropped"]
    /\ UNCHANGED <<m_capacity, m_flags, m_consumed, m_dropped, m_buffer,
                   m_writing_semaphore, m_reading_semaphore,
                   m_is_writing_cancelled, m_is_reading_cancelled,
                   xc, accepted, delivered, ncancel, ncancelled>>
    /\ Logged(t)

\* PRODUCER: m_produced.store(consumed)
reset_store_produced(t) ==
    /\ th[t].pc = "reset_store_produced"
    /\ m_produced' = [m_produced EXCEPT ![th[t].q] = th[t].consumed]
    /\ th' = [th EXCEPT ![t].pc = "reset_store_dropped"]
    /\ UNCHANGED <<m_capacity, m_flags, m_consumed, m_dropped, m_buffer,
                   m_writing_semaphore, m_reading_semaphore,
                   m_is_writing_cancelled, m_is_reading_cancelled,
                   xc, accepted, delivered, ncancel, ncancelled>>
    /\ Logged(t)

\* PRODUCER: m_dropped.store(0U)
reset_store_dropped(t) ==
    /\ th[t].pc = "reset_store_dropped"
    /\ m_dropped' = [m_dropped EXCEPT ![th[t].q] = 0]
    /\ th' = [th EXCEPT ![t] = Return(th[t], 0)]
    /\ UNCHANGED <<m_capacity, m_flags, m_produced, m_consumed, m_buffer,
                   m_writing_semaphore, m_reading_semaphore,
                   m_is_writing_cancelled, m_is_reading_cancelled,
                   xc, accepted, delivered, ncancel, ncancelled>>
    /\ Logged(t)

\* CONSUMER: produced = m_produced.load()
reset_load_produced(t) ==
    /\ th[t].pc = "reset_load_produced"
    /\ th' = [th EXCEPT ![t].pc = "reset_store_consumed",
                        ![t].produced = m_produced[th[t].q]]
    /\ UNCHANGED <<rbvars, xc, accepted, delivered, ncancel, ncancelled>>
    /\ Logged(t)

\* reset_store_consumed storing 0 instead of the value loaded from m_produced.
reset_store_consumed_Zero(t) ==
    /\ th[t].pc = "reset_store_consumed"
    /\ m_consumed' = [m_consumed EXCEPT ![th[t].q] = 0]
    /\ th' = [th EXCEPT ![t] = Return(th[t], 0)]
    /\ UNCHANGED <<m_capacity, m_flags, m_produced, m_dropped, m_buffer,
                   m_writing_semaphore, m_reading_semaphore,
                   m_is_writing_cancelled, m_is_reading_cancelled,
                   xc, accepted, delivered, ncancel, ncancelled>>
    /\ Logged(t)

\* CONSUMER: m_consumed.store(produced)
reset_store_consumed(t) ==
    /\ th[t].pc = "reset_store_consumed"
    /\ m_consumed' = [m_consumed EXCEPT ![th[t].q] = th[t].produced]
    /\ th' = [th EXCEPT ![t] = Return(th[t], 0)]
    /\ UNCHANGED <<m_capacity, m_flags, m_produced, m_dropped, m_buffer,
                   m_writing_semaphore, m_reading_semaphore,
                   m_is_writing_cancelled, m_is_reading_cancelled,
                   xc, accepted, delivered, ncancel, ncancelled>>
    /\ Logged(t)

\* NONE: counters::reset(), m_produced.store(0U)
reset_zero_produced(t) ==
    /\ th[t].pc = "reset_zero_produced"
    /\ m_produced' = [m_produced EXCEPT ![th[t].q] = 0]
    /\ th' = [th EXCEPT ![t].pc = "reset_zero_consumed"]
    /\ UNCHANGED <<m_capacity, m_flags, m_consumed, m_dropped, m_buffer,
                   m_writing_semaphore, m_reading_semaphore,
                   m_is_writing_cancelled, m_is_reading_cancelled,
                   xc, accepted, delivered, ncancel, ncancelled>>
    /\ Logged(t)

\* NONE: m_consumed.store(0U)
reset_zero_consumed(t) ==
    /\ th[t].pc = "reset_zero_consumed"
    /\ m_consumed' = [m_consumed EXCEPT ![th[t].q] = 0]
    /\ th' = [th EXCEPT ![t].pc = "reset_zero_dropped"]
    /\ UNCHANGED <<m_capacity, m_flags, m_produced, m_dropped, m_buffer,
                   m_writing_semaphore, m_reading_semaphore,
                   m_is_writing_cancelled, m_is_reading_cancelled,
                   xc, accepted, delivered, ncancel, ncancelled>>
    /\ Logged(t)

\* NONE: m_dropped.store(0U)
reset_zero_dropped(t) ==
    /\ th[t].pc = "reset_zero_dropped"
    /\ m_dropped' = [m_dropped EXCEPT ![th[t].q] = 0]
    /\ th' = [th EXCEPT ![t] = Return(th[t], 0)]
    /\ UNCHANGED <<m_capacity, m_flags, m_produced, m_consumed, m_buffer,
                   m_writing_semaphore, m_reading_semaphore,
                   m_is_writing_cancelled, m_is_reading_cancelled,
                   xc, accepted, delivered, ncancel, ncancelled>>
    /\ Logged(t)

\* One step of a thread inside reset().
ResetStep(t) ==
    \/ reset_load_consumed(t)
    \/ reset_store_produced(t)
    \/ reset_store_dropped(t)
    \/ reset_load_produced(t)
    \/ reset_store_consumed(t)
    \/ reset_zero_produced(t)
    \/ reset_zero_consumed(t)
    \/ reset_zero_dropped(t)

\* ---------------------------------------------------------- binary_semaphore
\* One binary_semaphore and the threads that call post(), wait() and
\* wait_timeout() on it.  m_mutex is the thread holding the mutex or "free";
\* m_condvar the threads blocked in m_condvar.wait / wait_for.  A blocked thread
\* leaves m_condvar when notify_one() picks it, on a spurious wakeup, or (in
\* wait_for) when its time is up, and must then take the mutex again.
SemThreads == {"s1", "s2", "s3"}

\* A thread outside every call on the semaphore; ret is what its last
\* wait_timeout() returned, expired whether elapsed >= timeout, status what
\* wait_for has returned.
IdleCaller == [pc |-> "idle", op |-> "none", ret |-> FALSE, expired |-> FALSE,
               status |-> "no_timeout"]

\* binary_semaphore(ready), nobody calling it yet.
SemConstructed(ready) ==
    /\ m_ready = ready
    /\ m_mutex = "free"
    /\ m_condvar = {}
    /\ sm = [t \in SemThreads |-> IdleCaller]
    /\ tally = [initial |-> ready, pcalls |-> 0, posts |-> 0, waits |-> 0, timed |-> 0,
                returned |-> 0, granted |-> IF ready THEN 1 ELSE 0, ordered |-> TRUE]

\* A thread calls post().
post_call(t) ==
    /\ sm[t].pc = "idle"
    /\ tally.pcalls < MaxPosts
    /\ sm' = [sm EXCEPT ![t] = [IdleCaller EXCEPT !.pc = "post_lock", !.op = "post"]]
    /\ tally' = [tally EXCEPT !.pcalls = @ + 1]
    /\ UNCHANGED <<m_ready, m_mutex, m_condvar, nonsemvars>>

\* post(): std::lock_guard lock(m_mutex)
post_lock(t) ==
    /\ sm[t].pc = "post_lock"
    /\ m_mutex = "free"
    /\ m_mutex' = t
    /\ sm' = [sm EXCEPT ![t].pc = "post_set"]
    /\ UNCHANGED <<m_ready, m_condvar, tally, nonsemvars>>

\* post(): m_ready = true
post_set(t) ==
    /\ sm[t].pc = "post_set"
    /\ m_ready' = TRUE
    /\ tally' = [tally EXCEPT !.granted = IF m_ready THEN @ ELSE @ + 1]
    /\ sm' = [sm EXCEPT ![t].pc = "post_unlock"]
    /\ UNCHANGED <<m_mutex, m_condvar, nonsemvars>>

\* post(): the lock_guard goes out of scope
post_unlock(t) ==
    /\ sm[t].pc = "post_unlock"
    /\ m_mutex' = "free"
    /\ sm' = [sm EXCEPT ![t].pc = "post_notify"]
    /\ UNCHANGED <<m_ready, m_condvar, tally, nonsemvars>>

\* The position of a thread that has left m_condvar.
Woken(r, status) ==
    [r EXCEPT !.pc = IF r.op = "wait" THEN "wait_relock" ELSE "timed_relock",
              !.status = status]

\* post_notify without the notify_one(): post() returns and nobody is
\* unblocked.
post_notify_Nobody(t) ==
    /\ sm[t].pc = "post_notify"
    /\ sm' = [sm EXCEPT ![t] = IdleCaller]
    /\ tally' = [tally EXCEPT !.posts = @ + 1]
    /\ UNCHANGED <<m_ready, m_mutex, m_condvar, nonsemvars>>

\* post(): m_condvar.notify_one(), which unblocks one of the threads blocked
\* in m_condvar, if there is one; post() returns.
post_notify(t) ==
    /\ sm[t].pc = "post_notify"
    /\ \/ /\ m_condvar = {}
          /\ sm' = [sm EXCEPT ![t] = IdleCaller]
          /\ UNCHANGED m_condvar
       \/ \E u \in m_condvar :
             /\ m_condvar' = m_condvar \ {u}
             /\ sm' = [sm EXCEPT ![t] = IdleCaller, ![u] = Woken(sm[u], "no_timeout")]
    /\ tally' = [tally EXCEPT !.posts = @ + 1]
    /\ UNCHANGED <<m_ready, m_mutex, nonsemvars>>

\* A thread calls wait().
wait_call(t) ==
    /\ sm[t].pc = "idle"
    /\ tally.waits < MaxWaits
    /\ sm' = [sm EXCEPT ![t] = [IdleCaller EXCEPT !.pc = "wait_lock", !.op = "wait"]]
    /\ tally' = [tally EXCEPT !.waits = @ + 1,
                              !.ordered = @ /\ tally.posts >= tally.waits + 1]
    /\ UNCHANGED <<m_ready, m_mutex, m_condvar, nonsemvars>>

\* wait(): std::unique_lock lock(m_mutex)
wait_lock(t) ==
    /\ sm[t].pc = "wait_lock"
    /\ m_mutex = "free"
    /\ m_mutex' = t
    /\ sm' = [sm EXCEPT ![t].pc = "wait_test"]
    /\ UNCHANGED <<m_ready, m_condvar, tally, nonsemvars>>

\* wait(): while (!m_ready) m_condvar.wait(lock), which releases the mutex and
\* blocks in one atomic step
wait_test(t) ==
    /\ sm[t].pc = "wait_test"
    /\ IF m_ready
       THEN /\ sm' = [sm EXCEPT ![t].pc = "wait_clear"]
            /\ UNCHANGED <<m_mutex, m_condvar>>
       ELSE /\ sm' = [sm EXCEPT ![t].pc = "wait_blocked"]
            /\ m_mutex' = "free"
            /\ m_condvar' = m_condvar \cup {t}
    /\ UNCHANGED <<m_ready, tally, nonsemvars>>

\* m_condvar.wait / wait_for unblocks without a notify (a spurious wakeup).
wakeup(t) ==
    /\ t \in m_condvar
    /\ m_condvar' = m_condvar \ {t}
    /\ sm' = [sm EXCEPT ![t] = Woken(sm[t], "no_timeout")]
    /\ UNCHANGED <<m_ready, m_mutex, tally, nonsemvars>>

\* wait_relock taking the wakeup for the grant: wait() goes on to clear
\* m_ready without testing it again ("if" in place of "while").
wait_relock_NoRetest(t) ==
    /\ sm[t].pc = "wait_relock"
    /\ m_mutex = "free"
    /\ m_mutex' = t
    /\ sm' = [sm EXCEPT ![t].pc = "wait_clear"]
    /\ UNCHANGED <<m_ready, m_condvar, tally, nonsemvars>>

\* m_condvar.wait: the unblocked thread takes the mutex again and wait()
\* tests m_ready again.
wait_relock(t) ==
    /\ sm[t].pc = "wait_relock"
    /\ m_mutex = "free"
    /\ m_mutex' = t
    /\ sm' = [sm EXCEPT ![t].pc = "wait_test"]
    /\ UNCHANGED <<m_ready, m_condvar, tally, nonsemvars>>

\* wait(): m_ready = false
wait_clear(t) ==
    /\ sm[t].pc = "wait_clear"
    /\ m_ready' = FALSE
    /\ sm' = [sm EXCEPT ![t].pc = "wait_unlock"]
    /\ UNCHANGED <<m_mutex, m_condvar, tally, nonsemvars>>

\* wait(): the unique_lock goes out of scope and wait() returns
wait_unlock(t) ==
    /\ sm[t].pc = "wait_unlock"
    /\ m_mutex' = "free"
    /\ sm' = [sm EXCEPT ![t] = IdleCaller]
    /\ tally' = [tally EXCEPT !.returned = @ + 1]
    /\ UNCHANGED <<m_ready, m_condvar, nonsemvars>>

\* A thread calls wait_timeout(milliseconds): elapsed(0) >= timeout exactly
\* when milliseconds is 0.
timed_call(t, milliseconds) ==
    /\ sm[t].pc = "idle"
    /\ tally.timed < MaxTimed
    /\ sm' = [sm EXCEPT ![t] = [IdleCaller EXCEPT !.pc = "timed_lock", !.op = "wait_timeout",
                                                  !.expired = (milliseconds = 0)]]
    /\ tally' = [tally EXCEPT !.timed = @ + 1]
    /\ UNCHANGED <<m_ready, m_mutex, m_condvar, nonsemvars>>

\* wait_timeout(): std::unique_lock lock(m_mutex)
timed_lock(t) ==
    /\ sm[t].pc = "timed_lock"
    /\ m_mutex = "free"
    /\ m_mutex' = t
    /\ sm' = [sm EXCEPT ![t].pc = "timed_test"]
    /\ UNCHANGED <<m_ready, m_condvar, tally, nonsemvars>>

\* wait_timeout(): while (!m_ready) { if (elapsed >= timeout) return false;
\* m_condvar.wait_for(lock, timeout - elapsed) ...
timed_test(t) ==
    /\ sm[t].pc = "timed_test"
    /\ IF m_ready
       THEN /\ sm' = [sm EXCEPT ![t].pc = "timed_clear"]
            /\ UNCHANGED <<m_mutex, m_condvar>>
       ELSE IF sm[t].expired
       THEN /\ sm' = [sm EXCEPT ![t].pc = "timed_fail"]
            /\ UNCHANGED <<m_mutex, m_condvar>>
       ELSE /\ sm' = [sm EXCEPT ![t].pc = "timed_blocked"]
            /\ m_mutex' = "free"
            /\ m_condvar' = m_condvar \cup {t}
    /\ UNCHANGED <<m_ready, tally, nonsemvars>>

\* m_condvar.wait_for: the time is up before a notify.
timed_out(t) ==
    /\ t \in m_condvar
    /\ sm[t].pc = "timed_blocked"
    /\ m_condvar' = m_condvar \ {t}
    /\ sm' = [sm EXCEPT ![t] = Woken(sm[t], "timeout")]
    /\ UNCHANGED <<m_ready, m_mutex, tally, nonsemvars>>

\* What wait_timeout() does once wait_for has the mutex again and returns
\* status; expired is elapsed >= timeout as computed from the clock read then.
AfterWaitFor(status, expired) ==
    IF status = "timeout" THEN [pc |-> "timed_fail", expired |-> TRUE]
    ELSE [pc |-> "timed_test", expired |-> expired]

\* m_condvar.wait_for takes the mutex again and returns;
\* if (std::cv_status::timeout == ...) return false; elapsed = now() - t1
timed_relock(t) ==
    /\ sm[t].pc = "timed_relock"
    /\ m_mutex = "free"
    /\ m_mutex' = t
    /\ \E expired \in BOOLEAN :
          sm' = [sm EXCEPT ![t].pc = AfterWaitFor(sm[t].status, expired).pc,
                           ![t].expired = AfterWaitFor(sm[t].status, expired).expired]
    /\ UNCHANGED <<m_ready, m_condvar, tally, nonsemvars>>

\* wait_timeout(): m_ready = false
timed_clear(t) ==
    /\ sm[t].pc = "timed_clear"
    /\ m_ready' = FALSE
    /\ sm' = [sm EXCEPT ![t].pc = "timed_unlock"]
    /\ UNCHANGED <<m_mutex, m_condvar, tally, nonsemvars>>

\* wait_timeout(): return true, the unique_lock going out of scope
timed_unlock(t) ==
    /\ sm[t].pc = "timed_unlock"
    /\ m_mutex' = "free"
    /\ sm' = [sm EXCEPT ![t] = [IdleCaller EXCEPT !.ret = TRUE]]
    /\ UNCHANGED <<m_ready, m_condvar, tally, nonsemvars>>

\* wait_timeout(): return false, the unique_lock going out of scope
timed_fail(t) ==
    /\ sm[t].pc = "timed_fail"
    /\ m_mutex' = "free"
    /\ sm' = [sm EXCEPT ![t] = [IdleCaller EXCEPT !.ret = FALSE]]
    /\ UNCHANGED <<m_ready, m_condvar, tally, nonsemvars>>

\* One step of a thread inside post() or wait().
SemStep(t) ==
    \/ post_lock(t)
    \/ post_set(t)
    \/ post_unlock(t)
    \/ post_notify(t)
    \/ wait_lock(t)
    \/ wait_test(t)
    \/ wakeup(t)
    \/ wait_relock(t)
    \/ wait_clear(t)
    \/ wait_unlock(t)

\* One step of a thread inside wait_timeout().
TimedStep(t) ==
    \/ timed_lock(t)
    \/ timed_test(t)
    \/ timed_out(t)
    \/ timed_relock(t)
    \/ timed_clear(t)
    \/ timed_unlock(t)
    \/ timed_fail(t)

\* ------------------------------------------------- ringbuffer construction
\* ringbuffer_base(capacity, flags): the state of a new ring buffer.
NewBuffer(capacity) == [i \in 0 .. capacity - 1 |-> Empty]

\* One ring buffer, one thread on its producer face, one on its consumer face
\* and a third thread that calls cancel().
TheQueue == 0
ProducerThread == "producer"
ConsumerThread == "consumer"
ObserverThread == "observer"

\* The ring buffer as constructed, the threads that use it outside every call.
RingWith(threads) ==
    /\ m_capacity = [q \in {TheQueue} |-> Capacity]
    /\ m_flags \in [{TheQueue} -> AllFlags]
    /\ m_produced = [q \in {TheQueue} |-> 0]
    /\ m_consumed = [q \in {TheQueue} |-> 0]
    /\ m_dropped = [q \in {TheQueue} |-> 0]
    /\ m_buffer = [q \in {TheQueue} |-> NewBuffer(m_capacity[q])]
    /\ m_writing_semaphore = [q \in {TheQueue} |-> TRUE]
    /\ m_reading_semaphore = [q \in {TheQueue} |-> FALSE]
    /\ m_is_writing_cancelled = [q \in {TheQueue} |-> FALSE]
    /\ m_is_reading_cancelled = [q \in {TheQueue} |-> FALSE]
    /\ th = [t \in threads |-> IdleThread]
    /\ xc = [pc |-> "idle", q |-> TheQueue]
    /\ accepted = [q \in {TheQueue} |-> <<>>]
    /\ delivered = [q \in {TheQueue} |-> <<>>]
    /\ ncancel = [r \in {PRODUCER, CONSUMER} |-> 0]
    /\ ncancelled = [r \in {PRODUCER, CONSUMER} |-> 0]
    /\ ncalls = 0
    /\ log = <<NoCall, NoCall>>
    /\ m_size = 0
    /\ m_running = FALSE
    /\ m_semaphore = <<>>
    /\ stage = <<>>
    /\ main = [pc |-> "none", n |-> 0]
    /\ m_irb = <<>>
    /\ m_orb = <<>>

\* The ring buffer as constructed, its two client threads outside every call.
RingConstructed == RingWith({ProducerThread, ConsumerThread})

\* The ring buffer as constructed, and a binary semaphore that nobody calls.
Constructed == RingConstructed /\ SemConstructed(FALSE)

Init == Constructed /\ seq = FALSE /\ logged = FALSE

\* The producer and the consumer run concurrently, each using every overload;
\* nobody calls cancel(), so no call finds a cancel flag set.
Next ==
    \/ \E a \in WriteOverloads : WriteCall(ProducerThread, TheQueue, a)
    \/ w_load_produced(ProducerThread)
    \/ w_load_consumed(ProducerThread)
    \/ w_dropped(ProducerThread)
    \/ w_wait(ProducerThread)
    \/ w_cancel_test(ProducerThread)
    \/ w_xfer_split(ProducerThread)
    \/ w_xfer(ProducerThread)
    \/ w_xfer_failed(ProducerThread)
    \/ w_store(ProducerThread)
    \/ w_post(ProducerThread)
    \/ \E a \in ReadOverloads : ReadCall(ConsumerThread, TheQueue, a)
    \/ r_load_produced(ConsumerThread)
    \/ r_load_consumed(ConsumerThread)
    \/ r_wait(ConsumerThread)
    \/ r_cancel_test(ConsumerThread)
    \/ r_xfer_split(ConsumerThread)
    \/ r_xfer(ConsumerThread)
    \/ r_xfer_failed(ConsumerThread)
    \/ r_store(ConsumerThread)
    \/ r_post(ConsumerThread)

Spec == Init /\ [][Next]_vars

\* The overloads that move elements: write(T&&), write(T (&&)[N]), read(T&&),
\* read(T (&&)[N]); the pipeline stages use the first of each.
MoveOverloads == {[n |-> n, kind |-> "move"] : n \in 1 .. MaxCount}

\* The producer and the consumer run concurrently, moving elements, while a
\* third thread calls cancel().
CancelNext ==
    \/ \E a \in MoveOverloads : WriteCall(ProducerThread, TheQueue, a)
    \/ w_load_produced(ProducerThread)
    \/ w_load_consumed(ProducerThread)
    \/ w_dropped(ProducerThread)
    \/ w_wait(ProducerThread)
    \/ w_cancel_test(ProducerThread)
    \/ w_cancel_clear(ProducerThread)
    \/ w_xfer_split(ProducerThread)
    \/ w_xfer(ProducerThread)
    \/ w_store(ProducerThread)
    \/ w_post(ProducerThread)
    \/ \E a \in MoveOverloads : ReadCall(ConsumerThread, TheQueue, a)
    \/ r_load_produced(ConsumerThread)
    \/ r_load_consumed(ConsumerThread)
    \/ r_wait(ConsumerThread)
    \/ r_cancel_test(ConsumerThread)
    \/ r_cancel_clear(ConsumerThread)
    \/ r_xfer_split(ConsumerThread)
    \/ r_xfer(ConsumerThread)
    \/ r_store(ConsumerThread)
    \/ r_post(ConsumerThread)
    \/ \E role \in Roles : CancelCall(TheQueue, role)
    \/ x_post_writing
    \/ x_post_reading

CancelSpec == Init /\ [][CancelNext]_vars

SeqInit == Constructed /\ seq = TRUE /\ logged = TRUE

\* The calls are made one at a time, each begun when the one before has
\* returned or is parked for good, with every overload, and logged.
SeqNext ==
    \/ \E a \in WriteOverloads : WriteCall(ProducerThread, TheQueue, a)
    \/ w_load_produced(ProducerThread)
    \/ w_load_consumed(ProducerThread)
    \/ w_dropped(ProducerThread)
    \/ w_wait(ProducerThread)
    \/ w_cancel_test(ProducerThread)
    \/ w_xfer_split(ProducerThread)
    \/ w_xfer(ProducerThread)
    \/ w_xfer_failed(ProducerThread)
    \/ w_store(ProducerThread)
    \/ w_post(ProducerThread)
    \/ \E a \in ReadOverloads : ReadCall(ConsumerThread, TheQueue, a)
    \/ r_load_produced(ConsumerThread)
    \/ r_load_consumed(ConsumerThread)
    \/ r_wait(ConsumerThread)
    \/ r_cancel_test(ConsumerThread)
    \/ r_xfer_split(ConsumerThread)
    \/ r_xfer(ConsumerThread)
    \/ r_xfer_failed(ConsumerThread)
    \/ r_store(ConsumerThread)
    \/ r_post(ConsumerThread)

SeqSpec == SeqInit /\ [][SeqNext]_vars

\* The ring buffer used from one thread at a time, with cancel() and reset():
\* the producer resets its side or the whole buffer, the consumer its side.
ResetNext ==
    \/ \E a \in MoveOverloads : WriteCall(ProducerThread, TheQueue, a)
    \/ w_load_produced(ProducerThread)
    \/ w_load_consumed(ProducerThread)
    \/ w_dropped(ProducerThread)
    \/ w_wait(ProducerThread)
    \/ w_cancel_test(ProducerThread)
    \/ w_cancel_clear(ProducerThread)
    \/ w_xfer_split(ProducerThread)
    \/ w_xfer(ProducerThread)
    \/ w_store(ProducerThread)
    \/ w_post(ProducerThread)
    \/ \E a \in MoveOverloads : ReadCall(ConsumerThread, TheQueue, a)
    \/ r_load_produced(ConsumerThread)
    \/ r_load_consumed(ConsumerThread)
    \/ r_wait(ConsumerThread)
    \/ r_cancel_test(ConsumerThread)
    \/ r_cancel_clear(ConsumerThread)
    \/ r_xfer_split(ConsumerThread)
    \/ r_xfer(ConsumerThread)
    \/ r_store(ConsumerThread)
    \/ r_post(ConsumerThread)
    \/ \E role \in Roles : CancelCall(TheQueue, role)
    \/ x_post_writing
    \/ x_post_reading
    \/ \E role \in {PRODUCER, NONE} : ResetCall(ProducerThread, TheQueue, role)
    \/ ResetCall(ConsumerThread, TheQueue, CONSUMER)
    \/ reset_load_consumed(ProducerThread)
    \/ reset_store_produced(ProducerThread)
    \/ reset_store_dropped(ProducerThread)
    \/ reset_load_produced(ConsumerThread)
    \/ reset_store_consumed(ConsumerThread)
    \/ reset_zero_produced(ProducerThread)
    \/ reset_zero_consumed(ProducerThread)
    \/ reset_zero_dropped(ProducerThread)

ResetSpec == SeqInit /\ [][ResetNext]_vars

\* The producer and the consumer run concurrently, moving elements, while
\* each of them between its calls, and a third thread at any moment, calls
\* get_counters().
ObserveInit ==
    /\ RingWith({ProducerThread, ConsumerThread, ObserverThread})
    /\ SemConstructed(FALSE)
    /\ seq = FALSE
    /\ logged = FALSE

ObserveNext ==
    \/ \E a \in MoveOverloads : WriteCall(ProducerThread, TheQueue, a)
    \/ w_load_produced(ProducerThread)
    \/ w_load_consumed(ProducerThread)
    \/ w_dropped(ProducerThread)
    \/ w_wait(ProducerThread)
    \/ w_cancel_test(ProducerThread)
    \/ w_xfer_split(ProducerThread)
    \/ w_xfer(ProducerThread)
    \/ w_store(ProducerThread)
    \/ w_post(ProducerThread)
    \/ \E a \in MoveOverloads : ReadCall(ConsumerThread, TheQueue, a)
    \/ r_load_produced(ConsumerThread)
    \/ r_load_consumed(ConsumerThread)
    \/ r_wait(ConsumerThread)
    \/ r_cancel_test(ConsumerThread)
    \/ r_xfer_split(ConsumerThread)
    \/ r_xfer(ConsumerThread)
    \/ r_store(ConsumerThread)
    \/ r_post(ConsumerThread)
    \/ \E t \in Threads : CountersCall(t, TheQueue)
    \/ \E t \in Threads : g_load_produced(t)
    \/ \E t \in Threads : g_load_consumed(t)
    \/ \E t \in Threads : g_load_dropped(t)

ObserveSpec == ObserveInit /\ [][ObserveNext]_vars

\* ------------------------------------------- memory_order_relaxed publication
\* m_produced.store(produced + count, std::memory_order_relaxed) orders
\* nothing: the elements are stored by plain assignments and the counter is
\* loaded relaxed by the other thread, so the store of the counter may take
\* effect before the element stores of the last xfer() that precede it in
\* the program. The counter is published first ...
w_store_early(t) ==
    /\ th[t].pc = "w_xfer"
    /\ LET r == th[t]
       IN  /\ m_produced' = [m_produced EXCEPT ![r.q] = Published(r.produced, r.count)]
           /\ accepted' = [accepted EXCEPT ![r.q] = @ \o SubSeq(r.req, 1, r.count)]
           /\ th' = [th EXCEPT ![t].pc = "w_xfer_late"]
    /\ UNCHANGED <<m_capacity, m_flags, m_consumed, m_dropped, m_buffer,
                   m_writing_semaphore, m_reading_semaphore,
                   m_is_writing_cancelled, m_is_reading_cancelled,
                   xc, delivered, ncancel, ncancelled>>
    /\ Logged(t)

\* ... and the elements of xfer(m_buffer + write_idx, data, remaining) reach
\* the storage afterwards; then the post() and the return.
w_xfer_late(t) ==
    /\ th[t].pc = "w_xfer_late"
    /\ LET r == th[t]
           x == WriteXfer(r, m_buffer[r.q], r.remaining, 0)
           r1 == [r EXCEPT !.data = x.data, !.calls = x.calls]
       IN  /\ m_buffer' = [m_buffer EXCEPT ![r.q] = x.buffer]
           /\ th' = [th EXCEPT ![t] =
                       IF ~test(r.q, RINGBUFFER_NONBLOCKING_READ_SHIFT)
                       THEN [r1 EXCEPT !.pc = "w_post"]
                       ELSE Return(r1, r.count)]
    /\ UNCHANGED <<m_capacity, m_flags, m_produced, m_consumed, m_dropped,
                   m_writing_semaphore, m_reading_semaphore,
                   m_is_writing_cancelled, m_is_reading_cancelled,
                   xc, accepted, delivered, ncancel, ncancelled>>
    /\ Logged(t)

\* m_consumed.store(consumed + count, std::memory_order_relaxed) taking
\* effect before the moves out of the slots of the last xfer().
r_store_early(t) ==
    /\ th[t].pc = "r_xfer"
    /\ LET r == th[t]
       IN  /\ m_consumed' = [m_consumed EXCEPT ![r.q] = Retired(r.consumed, r.count)]
           /\ th' = [th EXCEPT ![t].pc = "r_xfer_late"]
    /\ UNCHANGED <<m_capacity, m_flags, m_produced, m_dropped, m_buffer,
                   m_writing_semaphore, m_reading_semaphore,
                   m_is_writing_cancelled, m_is_reading_cancelled,
                   xc, accepted, delivered, ncancel, ncancelled>>
    /\ Logged(t)

\* The elements of xfer(data, m_buffer + read_idx, remaining) leave the
\* storage after the counter was stored; then the post() and the return.
r_xfer_late(t) ==
    /\ th[t].pc = "r_xfer_late"
    /\ LET r == th[t]
           x == ReadXfer(r, m_buffer[r.q], r.remaining, 0)
           r1 == [r EXCEPT !.data = x.data, !.calls = x.calls]
       IN  /\ m_buffer' = [m_buffer EXCEPT ![r.q] = x.buffer]
           /\ delivered' = [delivered EXCEPT ![r.q] = @ \o Prefix(x.data, r.count)]
           /\ th' = [th EXCEPT ![t] =
                       IF ~test(r.q, RINGBUFFER_NONBLOCKING_WRITE_SHIFT)
                       THEN [r1 EXCEPT !.pc = "r_post"]
                       ELSE Return(r1, r.count)]
    /\ UNCHANGED <<m_capacity, m_flags, m_produced, m_consumed, m_dropped,
                   m_writing_semaphore, m_reading_semaphore,
                   m_is_writing_cancelled, m_is_reading_cancelled,
                   xc, accepted, ncancel, ncancelled>>
    /\ Logged(t)

\* The producer and the consumer run concurrently, moving elements, on a
\* build in which the relaxed stores of the counters take effect in either
\* order with the element accesses of the last xfer().
RelaxedNext ==
    \/ \E a \in MoveOverloads : WriteCall(ProducerThread, TheQueue, a)
    \/ w_load_produced(ProducerThread)
    \/ w_load_consumed(ProducerThread)
    \/ w_dropped(ProducerThread)
    \/ w_wait(ProducerThread)
    \/ w_cancel_test(ProducerThread)
    \/ w_xfer_split(ProducerThread)
    \/ w_xfer(ProducerThread)
    \/ w_store(ProducerThread)
    \/ w_store_early(ProducerThread)
    \/ w_xfer_late(ProducerThread)
    \/ w_post(ProducerThread)
    \/ \E a \in MoveOverloads : ReadCall(ConsumerThread, TheQueue, a)
    \/ r_load_produced(ConsumerThread)
    \/ r_load_consumed(ConsumerThread)
    \/ r_wait(ConsumerThread)
    \/ r_cancel_test(ConsumerThread)
    \/ r_xfer_split(ConsumerThread)
    \/ r_xfer(ConsumerThread)
    \/ r_store(ConsumerThread)
    \/ r_store_early(ConsumerThread)
    \/ r_xfer_late(ConsumerThread)
    \/ r_post(ConsumerThread)

RelaxedSpec == Init /\ [][RelaxedNext]_vars

\* The producer and the consumer run concurrently, moving elements, and each
\* calls reset() for its own side between its own calls, so that no operation
\* is in flight on the side being reset while the other side may be inside a
\* write or a read (never inside a reset of its own).
RaceNext ==
    \/ \E a \in MoveOverloads : WriteCall(ProducerThread, TheQueue, a)
    \/ w_load_produced(ProducerThread)
    \/ w_load_consumed(ProducerThread)
    \/ w_dropped(ProducerThread)
    \/ w_wait(ProducerThread)
    \/ w_cancel_test(ProducerThread)
    \/ w_xfer_split(ProducerThread)
    \/ w_xfer(ProducerThread)
    \/ w_store(ProducerThread)
    \/ w_post(ProducerThread)
    \/ \E a \in MoveOverloads : ReadCall(ConsumerThread, TheQueue, a)
    \/ r_load_produced(ConsumerThread)
    \/ r_load_consumed(ConsumerThread)
    \/ r_wait(ConsumerThread)
    \/ r_cancel_test(ConsumerThread)
    \/ r_xfer_split(ConsumerThread)
    \/ r_xfer(ConsumerThread)
    \/ r_store(ConsumerThread)
    \/ r_post(ConsumerThread)
    \/ th[ConsumerThread].op # "reset" /\ ResetCall(ProducerThread, TheQueue, PRODUCER)
    \/ reset_load_consumed(ProducerThread)
    \/ reset_store_produced(ProducerThread)
    \/ reset_store_dropped(ProducerThread)
    \/ th[ProducerThread].op # "reset" /\ ResetCall(ConsumerThread, TheQueue, CONSUMER)
    \/ reset_load_produced(ConsumerThread)
    \/ reset_store_consumed(ConsumerThread)

RaceSpec == Init /\ [][RaceNext]_vars

\* write(), read() and cancel() called from one thread at a time, moving
\* elements, and logged; a read that has been woken and the post() of a
\* cancel() that has begun are scheduled fairly.
WakeNext ==
    \/ \E a \in MoveOverloads : WriteCall(ProducerThread, TheQueue, a)
    \/ w_load_produced(ProducerThread)
    \/ w_load_consumed(ProducerThread)
    \/ w_dropped(ProducerThread)
    \/ w_wait(ProducerThread)
    \/ w_cancel_test(ProducerThread)
    \/ w_cancel_clear(ProducerThread)
    \/ w_xfer_split(ProducerThread)
    \/ w_xfer(ProducerThread)
    \/ w_store(ProducerThread)
    \/ w_post(ProducerThread)
    \/ \E a \in MoveOverloads : ReadCall(ConsumerThread, TheQueue, a)
    \/ r_load_produced(ConsumerThread)
    \/ r_load_consumed(ConsumerThread)
    \/ r_wait(ConsumerThread)
    \/ r_cancel_test(ConsumerThread)
    \/ r_cancel_clear(ConsumerThread)
    \/ r_xfer_split(ConsumerThread)
    \/ r_xfer(ConsumerThread)
    \/ r_store(ConsumerThread)
    \/ r_post(ConsumerThread)
    \/ \E role \in Roles : CancelCall(TheQueue, role)
    \/ x_post_writing
    \/ x_post_reading

WakeSpec ==
    /\ SeqInit
    /\ [][WakeNext]_vars
    /\ WF_vars(ReadStep(ConsumerThread))
    /\ WF_vars(x_post_reading)

\* The producer and the consumer run concurrently with a thread that calls
\* cancel(); a thread inside write(), read() or cancel() is scheduled again
\* until its call returns or parks.
LiveSpec ==
    /\ Init
    /\ [][CancelNext]_vars
    /\ WF_vars(WriteStep(ProducerThread))
    /\ WF_vars(ReadStep(ConsumerThread))
    /\ WF_vars(CancelStep)

\* A ring buffer with both sides blocking, a producer that keeps writing (up
\* to MaxVal elements) and a consumer that keeps reading, no cancel(): each
\* thread is scheduled again whenever it can take a step or begin a call.
BlockingInit ==
    /\ Init
    /\ m_flags[TheQueue] = RINGBUFFER_RD_BLOCKING_WR_BLOCKING

BlockingNext ==
    \/ \E a \in MoveOverloads : WriteCall(ProducerThread, TheQueue, a)
    \/ w_load_produced(ProducerThread)
    \/ w_load_consumed(ProducerThread)
    \/ w_wait(ProducerThread)
    \/ w_cancel_test(ProducerThread)
    \/ w_xfer_split(ProducerThread)
    \/ w_xfer(ProducerThread)
    \/ w_store(ProducerThread)
    \/ w_post(ProducerThread)
    \/ \E a \in MoveOverloads : ReadCall(ConsumerThread, TheQueue, a)
    \/ r_load_produced(ConsumerThread)
    \/ r_load_consumed(ConsumerThread)
    \/ r_wait(ConsumerThread)
    \/ r_cancel_test(ConsumerThread)
    \/ r_xfer_split(ConsumerThread)
    \/ r_xfer(ConsumerThread)
    \/ r_store(ConsumerThread)
    \/ r_post(ConsumerThread)

BlockingSpec ==
    /\ BlockingInit
    /\ [][BlockingNext]_vars
    /\ WF_vars(\E a \in MoveOverloads : WriteCall(ProducerThread, TheQueue, a))
    /\ WF_vars(WriteStep(ProducerThread))
    /\ WF_vars(\E a \in MoveOverloads : ReadCall(ConsumerThread, TheQueue, a))
    /\ WF_vars(ReadStep(ConsumerThread))

\* The moving overloads, and the callback overload called with a count of 0.
ZeroOverloads == MoveOverloads \cup {[n |-> 0, kind |-> "functor"]}

\* The calls are made one at a time and logged: write() and read() with some
\* elements or with none, and cancel().
ZeroNext ==
    \/ \E a \in ZeroOverloads : WriteCall(ProducerThread, TheQueue, a)
    \/ w_load_produced(ProducerThread)
    \/ w_load_consumed(ProducerThread)
    \/ w_dropped(ProducerThread)
    \/ w_wait(ProducerThread)
    \/ w_cancel_test(ProducerThread)
    \/ w_cancel_clear(ProducerThread)
    \/ w_xfer_split(ProducerThread)
    \/ w_xfer(ProducerThread)
    \/ w_store(ProducerThread)
    \/ w_post(ProducerThread)
    \/ \E a \in ZeroOverloads : ReadCall(ConsumerThread, TheQueue, a)
    \/ r_load_produced(ConsumerThread)
    \/ r_load_consumed(ConsumerThread)
    \/ r_wait(ConsumerThread)
    \/ r_cancel_test(ConsumerThread)
    \/ r_cancel_clear(ConsumerThread)
    \/ r_xfer_split(ConsumerThread)
    \/ r_xfer(ConsumerThread)
    \/ r_store(ConsumerThread)
    \/ r_post(ConsumerThread)
    \/ \E role \in Roles : CancelCall(TheQueue, role)
    \/ x_post_writing
    \/ x_post_reading

ZeroSpec == SeqInit /\ [][ZeroNext]_vars

TurnInit == Constructed /\ seq = TRUE /\ logged = FALSE

\* write(), read() and cancel(), with every overload, called from one thread
\* at a time: the producer writes, the consumer reads, a third thread cancels.
TurnNext ==
    \/ \E a \in WriteOverloads : WriteCall(ProducerThread, TheQueue, a)
    \/ w_load_produced(ProducerThread)
    \/ w_load_consumed(ProducerThread)
    \/ w_dropped(ProducerThread)
    \/ w_wait(ProducerThread)
    \/ w_cancel_test(ProducerThread)
    \/ w_cancel_clear(ProducerThread)
    \/ w_xfer_split(ProducerThread)
    \/ w_xfer(ProducerThread)
    \/ w_xfer_failed(ProducerThread)
    \/ w_store(ProducerThread)
    \/ w_post(ProducerThread)
    \/ \E a \in ReadOverloads : ReadCall(ConsumerThread, TheQueue, a)
    \/ r_load_produced(ConsumerThread)
    \/ r_load_consumed(ConsumerThread)
    \/ r_wait(ConsumerThread)
    \/ r_cancel_test(ConsumerThread)
    \/ r_cancel_clear(ConsumerThread)
    \/ r_xfer_split(ConsumerThread)
    \/ r_xfer(ConsumerThread)
    \/ r_xfer_failed(ConsumerThread)
    \/ r_store(ConsumerThread)
    \/ r_post(ConsumerThread)
    \/ \E role \in Roles : CancelCall(TheQueue, role)
    \/ x_post_writing
    \/ x_post_reading

TurnSpec == TurnInit /\ [][TurnNext]_vars

\* A binary semaphore constructed ready or not, beside a ring buffer that
\* nobody calls.
SemInit ==
    /\ RingConstructed
    /\ m_flags[TheQueue] = RINGBUFFER_RD_BLOCKING_WR_BLOCKING
    /\ seq = FALSE
    /\ logged = FALSE
    /\ \E ready \in BOOLEAN : SemConstructed(ready)

\* Three threads call post() and wait() on the semaphore in any order.
SemNext ==
    \/ \E t \in SemThreads : post_call(t)
    \/ \E t \in SemThreads : post_lock(t)
    \/ \E t \in SemThreads : post_set(t)
    \/ \E t \in SemThreads : post_unlock(t)
    \/ \E t \in SemThreads : post_notify(t)
    \/ \E t \in SemThreads : wait_call(t)
    \/ \E t \in SemThreads : wait_lock(t)
    \/ \E t \in SemThreads : wait_test(t)
    \/ \E t \in SemThreads : wakeup(t)
    \/ \E t \in SemThreads : wait_relock(t)
    \/ \E t \in SemThreads : wait_clear(t)
    \/ \E t \in SemThreads : wait_unlock(t)

SemSpec == SemInit /\ [][SemNext]_vars

\* Three threads call post(), wait() and wait_timeout() in any order.
TimedNext ==
    \/ SemNext
    \/ \E t \in SemThreads, milliseconds \in {0, 1} : timed_call(t, milliseconds)
    \/ \E t \in SemThreads : timed_lock(t)
    \/ \E t \in SemThreads : timed_test(t)
    \/ \E t \in SemThreads : timed_out(t)
    \/ \E t \in SemThreads : timed_relock(t)
    \/ \E t \in SemThreads : timed_clear(t)
    \/ \E t \in SemThreads : timed_unlock(t)
    \/ \E t \in SemThreads : timed_fail(t)

TimedSpec == SemInit /\ [][TimedNext]_vars

\* ------------------------------------------------------------------ pipeline
\* What the pipeline's own steps leave alone in the ring buffers and in the
\* calls in flight on them.
rbstate == <<rbvars, th, xc, accepted, delivered, ncancel, ncancelled,
             seq, logged, ncalls, log, semvars>>

\* What the steps of start(), stop(), join() and run() leave alone.
rbwired == <<rbstate, wiring>>

\* The one element a stage moves out of its input queue or into its output
\* queue: irb->read(std::move(buf_uptr)), orb->write(std::move(..)).
OneMoved == [n |-> 1, kind |-> "move"]

\* pipeline(f, queue_capacity) with N stages, when its constructor has made
\* the N - 1 ring buffers, all RINGBUFFER_RD_BLOCKING_WR_NONBLOCKING, and is
\* about to make the stages: no stage has a thread or a queue yet.
PipeInit ==
    /\ m_size \in 1 .. MaxStages
    /\ m_running = FALSE
    /\ m_semaphore = [t \in 0 .. m_size - 1 |-> 0]
    /\ stage = [t \in 0 .. m_size - 1 |-> "none"]
    /\ main = [pc |-> "construct", n |-> 0]
    /\ m_irb = [t \in 0 .. m_size - 1 |-> nullptr]
    /\ m_orb = [t \in 0 .. m_size - 1 |-> nullptr]
    /\ m_capacity = [q \in 0 .. m_size - 2 |-> QueueCapacity]
    /\ m_flags = [q \in 0 .. m_size - 2 |-> RINGBUFFER_RD_BLOCKING_WR_NONBLOCKING]
    /\ m_produced = [q \in 0 .. m_size - 2 |-> 0]
    /\ m_consumed = [q \in 0 .. m_size - 2 |-> 0]
    /\ m_dropped = [q \in 0 .. m_size - 2 |-> 0]
    /\ m_buffer = [q \in 0 .. m_size - 2 |-> NewBuffer(QueueCapacity)]
    /\ m_writing_semaphore = [q \in 0 .. m_size - 2 |-> TRUE]
    /\ m_reading_semaphore = [q \in 0 .. m_size - 2 |-> FALSE]
    /\ m_is_writing_cancelled = [q \in 0 .. m_size - 2 |-> FALSE]
    /\ m_is_reading_cancelled = [q \in 0 .. m_size - 2 |-> FALSE]
    /\ th = [t \in 0 .. m_size - 1 |-> IdleThread]
    /\ xc = [pc |-> "idle", q |-> 0]
    /\ accepted = [q \in 0 .. m_size - 2 |-> <<>>]
    /\ delivered = [q \in 0 .. m_size - 2 |-> <<>>]
    /\ ncancel = [r \in {PRODUCER, CONSUMER} |-> 0]
    /\ ncancelled = [r \in {PRODUCER, CONSUMER} |-> 0]
    /\ seq = FALSE
    /\ logged = FALSE
    /\ ncalls = 0
    /\ log = <<NoCall, NoCall>>
    /\ SemConstructed(FALSE)

\* The constructor goes on to stage n + 1, or returns and start() is called.
NextStage(n) ==
    IF n + 1 < m_size THEN [pc |-> "construct", n |-> n + 1] ELSE [pc |-> "start", n |-> 0]

\* m_stages[n] = std::make_unique<stage_exec_env>(*this, f[n]): m_irb and
\* m_orb are null, m_semaphore is 0 and m_thread starts run().
construct_stage ==
    /\ main.pc = "construct"
    /\ stage' = [stage EXCEPT ![main.n] = "wait"]
    /\ m_semaphore' = [m_semaphore EXCEPT ![main.n] = 0]
    /\ m_irb' = [m_irb EXCEPT ![main.n] = nullptr]
    /\ m_orb' = [m_orb EXCEPT ![main.n] = nullptr]
    /\ main' = IF m_size > 1 THEN [main EXCEPT !.pc = "wire"] ELSE NextStage(main.n)
    /\ UNCHANGED <<rbstate, m_size, m_running>>

\* The queues the constructor hands to stage n of N > 1: the first stage
\* writes queue 0, the last reads queue N - 2, stage n between them reads
\* queue n - 1 and writes queue n.  The middle stage given its input queue as
\* its output queue too.
Wired_SameQueue(n, N) ==
    IF n = 0 THEN [irb |-> nullptr, orb |-> n]
    ELSE IF n = N - 1 THEN [irb |-> n - 1, orb |-> nullptr]
    ELSE [irb |-> n - 1, orb |-> n - 1]

\* The queues the constructor hands to stage n of N > 1.
Wired(n, N) ==
    IF n = 0 THEN [irb |-> nullptr, orb |-> n]
    ELSE IF n = N - 1 THEN [irb |-> n - 1, orb |-> nullptr]
    ELSE [irb |-> n - 1, orb |-> n]

\* if (N > 1) m_stages[n]->set_ringbuffers(..), while the thread of stage n
\* is already running
set_ringbuffers ==
    /\ main.pc = "wire"
    /\ m_irb' = [m_irb EXCEPT ![main.n] = Wired(main.n, m_size).irb]
    /\ m_orb' = [m_orb EXCEPT ![main.n] = Wired(main.n, m_size).orb]
    /\ main' = NextStage(main.n)
    /\ UNCHANGED <<rbstate, m_size, m_running, m_semaphore, stage>>

\* start(): m_running = true
start_running ==
    /\ main.pc = "start"
    /\ m_running' = TRUE
    /\ main' = [pc |-> "post", n |-> 0]
    /\ UNCHANGED <<rbwired, m_size, m_semaphore, stage>>

\* start(): m_stages[n]->post(), for each n in turn
start_post ==
    /\ main.pc = "post"
    /\ m_semaphore' = [m_semaphore EXCEPT ![main.n] = @ + 1]
    /\ main' = IF main.n + 1 < m_size THEN [main EXCEPT !.n = @ + 1]
               ELSE [pc |-> "started", n |-> 0]
    /\ UNCHANGED <<rbwired, m_size, m_running, stage>>

\* stop(): m_running = false
stop_running ==
    /\ main.pc = "started"
    /\ m_running' = FALSE
    /\ main' = [pc |-> "stop", n |-> 0]
    /\ UNCHANGED <<rbwired, m_size, m_semaphore, stage>>

\* stop() cancelling the producer side of each queue instead of the consumer
\* side.
stop_cancel_Producer ==
    /\ main.pc = "stop"
    /\ main.n < m_size - 1
    /\ CancelCall(main.n, PRODUCER)

\* stop(): m_ringbuffers[n]->cancel(CONSUMER), for each n in turn
stop_cancel ==
    /\ main.pc = "stop"
    /\ main.n < m_size - 1
    /\ CancelCall(main.n, CONSUMER)

\* stop() returns and join() is called
stop_return ==
    /\ main.pc = "stop"
    /\ main.n >= m_size - 1
    /\ xc.pc = "idle"
    /\ main' = [pc |-> "join", n |-> 0]
    /\ UNCHANGED <<rbwired, m_size, m_running, m_semaphore, stage>>

\* join(): m_stages[n]->join(), for each n in turn, returns when run() has
join ==
    /\ main.pc = "join"
    /\ stage[main.n] = "done"
    /\ main' = IF main.n + 1 < m_size THEN [main EXCEPT !.n = @ + 1]
               ELSE [pc |-> "joined", n |-> 0]
    /\ UNCHANGED <<rbwired, m_size, m_running, m_semaphore, stage>>

\* run() going past m_semaphore.wait() whatever the count.
run_wait_NoGate(t) ==
    /\ t \in DOMAIN stage
    /\ stage[t] = "wait"
    /\ m_semaphore' = [m_semaphore EXCEPT ![t] = IF @ > 0 THEN @ - 1 ELSE @]
    /\ stage' = [stage EXCEPT ![t] = "loop"]
    /\ UNCHANGED <<rbwired, m_size, m_running, main>>

\* run(): m_semaphore.wait()
run_wait(t) ==
    /\ t \in DOMAIN stage
    /\ stage[t] = "wait"
    /\ m_semaphore[t] > 0
    /\ m_semaphore' = [m_semaphore EXCEPT ![t] = @ - 1]
    /\ stage' = [stage EXCEPT ![t] = "loop"]
    /\ UNCHANGED <<rbwired, m_size, m_running, main>>

\* run() calling the stage function again whatever m_running says.
run_test_IgnoresFlag(t) ==
    /\ t \in DOMAIN stage
    /\ stage[t] = "loop"
    /\ stage' = [stage EXCEPT ![t] = IF t = 0 THEN "produce" ELSE "read"]
    /\ UNCHANGED <<rbwired, m_size, m_running, m_semaphore, main>>

\* run(): while (m_pipeline.m_running && ...)
run_test(t) ==
    /\ t \in DOMAIN stage
    /\ stage[t] = "loop"
    /\ stage' = [stage EXCEPT ![t] = IF m_running THEN IF t = 0 THEN "produce" ELSE "read"
                                     ELSE "done"]
    /\ UNCHANGED <<rbwired, m_size, m_running, m_semaphore, main>>

\* producer_fails taking the whole pipeline down with it.
producer_fails_Stops(t) ==
    /\ t \in DOMAIN stage
    /\ stage[t] = "produce"
    /\ th[t].pc = "idle"
    /\ stage' = [stage EXCEPT ![t] = "done"]
    /\ m_running' = FALSE
    /\ UNCHANGED <<rbwired, m_size, m_semaphore, main>>

\* The first stage returns false (rtlsdr_read_sync failed): run() returns.
producer_fails(t) ==
    /\ t \in DOMAIN stage
    /\ stage[t] = "produce"
    /\ th[t].pc = "idle"
    /\ stage' = [stage EXCEPT ![t] = "done"]
    /\ UNCHANGED <<rbwired, m_size, m_running, m_semaphore, main>>

\* pipeline takes any stage_function: a later stage whose function returns
\* false before it reads (the application's own return false only when the
\* read does not return 1): run() returns.
stage_fails(t) ==
    /\ t \in DOMAIN stage
    /\ stage[t] = "read"
    /\ th[t].pc = "idle"
    /\ stage' = [stage EXCEPT ![t] = "done"]
    /\ UNCHANGED <<rbwired, m_size, m_running, m_semaphore, main>>

\* The first stage returns true without a write (a short read, an idle loop).
producer_idles(t) ==
    /\ t \in DOMAIN stage
    /\ stage[t] = "produce"
    /\ th[t].pc = "idle"
    /\ stage' = [stage EXCEPT ![t] = "loop"]
    /\ UNCHANGED <<rbwired, m_size, m_running, m_semaphore, main>>

\* The first stage calls orb->write(std::move(iqbuf_uptr)), MaxPiped times at
\* most.
producer_writes(t) ==
    /\ t \in DOMAIN stage
    /\ stage[t] = "produce"
    /\ t < m_size - 1
    /\ Len(accepted[m_orb[t]]) + m_dropped[m_orb[t]] < MaxPiped
    /\ WriteCall(t, m_orb[t], OneMoved)

\* A later stage calls irb->read(std::move(buf_uptr)).
stage_reads(t) ==
    /\ t \in DOMAIN stage
    /\ stage[t] = "read"
    /\ ReadCall(t, m_irb[t], OneMoved)

\* A middle stage calls orb->write(std::move(pcmbuf_uptr)).
stage_writes(t) ==
    /\ t \in DOMAIN stage
    /\ stage[t] = "write"
    /\ WriteCall(t, m_orb[t], OneMoved)

\* A first stage that writes the integers 1 .. MaxPiped in order, one
\* orb->write(std::move(..)) in each call of the stage function, which returns
\* true whatever the write returned; 0 is the value of a moved-from element.
emit_writes(t) ==
    /\ t \in DOMAIN stage
    /\ stage[t] = "produce"
    /\ m_orb[t] # nullptr
    /\ Len(accepted[m_orb[t]]) + m_dropped[m_orb[t]] < MaxPiped
    /\ WriteOf(t, m_orb[t], OneMoved,
               [i \in {0} |-> Len(accepted[m_orb[t]]) + m_dropped[m_orb[t]] + 1])

\* The first stage has written its last integer: its function returns false.
emit_ends(t) ==
    /\ t \in DOMAIN stage
    /\ stage[t] = "produce"
    /\ th[t].pc = "idle"
    /\ m_orb[t] # nullptr
    /\ Len(accepted[m_orb[t]]) + m_dropped[m_orb[t]] >= MaxPiped
    /\ stage' = [stage EXCEPT ![t] = "done"]
    /\ UNCHANGED <<rbwired, m_size, m_running, m_semaphore, main>>

\* The middle stage's output for the value v it has read, the value itself.
Doubled_Same(v) == v

\* The middle stage's output for the value v it has read.
Doubled(v) == 2 * v

\* A middle stage that writes the double of the value its read has just
\* returned, the last one delivered from its input queue, and returns true
\* whatever the write returned.
double_writes(t) ==
    /\ t \in DOMAIN stage
    /\ stage[t] = "write"
    /\ m_irb[t] # nullptr /\ m_orb[t] # nullptr
    /\ delivered[m_irb[t]] # <<>>
    /\ WriteOf(t, m_orb[t], OneMoved,
               [i \in {0} |-> Doubled(delivered[m_irb[t]][Len(delivered[m_irb[t]])])])

\* One step of the thread of stage t in the pipeline that doubles.
EmitStage(t) ==
    \/ run_wait(t)
    \/ run_test(t)
    \/ emit_writes(t)
    \/ emit_ends(t)
    \/ stage_reads(t)
    \/ double_writes(t)
    \/ t \in DOMAIN stage /\ (WriteStep(t) \/ ReadStep(t))

\* One step of the thread that constructs and starts the pipeline.
StartMain == construct_stage \/ set_ringbuffers \/ start_running \/ start_post

\* One step of the thread of stage t.
StageNext(t) ==
    \/ run_wait(t)
    \/ run_test(t)
    \/ producer_fails(t)
    \/ producer_idles(t)
    \/ producer_writes(t)
    \/ stage_reads(t)
    \/ stage_writes(t)
    \/ t \in DOMAIN stage /\ (WriteStep(t) \/ ReadStep(t))

\* One step of stop() after its store to m_running, or of join().
StopNext == stop_cancel \/ x_post_reading \/ stop_return \/ join

PipeNext ==
    \/ construct_stage
    \/ set_ringbuffers
    \/ start_running
    \/ start_post
    \/ stop_running
    \/ stop_cancel
    \/ x_post_reading
    \/ stop_return
    \/ join
    \/ \E t \in 0 .. MaxStages - 1 : run_wait(t)
    \/ \E t \in 0 .. MaxStages - 1 : run_test(t)
    \/ \E t \in 0 .. MaxStages - 1 : producer_fails(t)
    \/ \E t \in 0 .. MaxStages - 1 : producer_idles(t)
    \/ \E t \in 0 .. MaxStages - 1 : producer_writes(t)
    \/ \E t \in 0 .. MaxStages - 1 : stage_reads(t)
    \/ \E t \in 0 .. MaxStages - 1 : stage_writes(t)
    \/ \E t \in DOMAIN stage : w_load_produced(t)
    \/ \E t \in DOMAIN stage : w_load_consumed(t)
    \/ \E t \in DOMAIN stage : w_dropped(t)
    \/ \E t \in DOMAIN stage : w_xfer(t)
    \/ \E t \in DOMAIN stage : w_store(t)
    \/ \E t \in DOMAIN stage : w_post(t)
    \/ \E t \in DOMAIN stage : r_load_produced(t)
    \/ \E t \in DOMAIN stage : r_load_consumed(t)
    \/ \E t \in DOMAIN stage : r_wait(t)
    \/ \E t \in DOMAIN stage : r_cancel_test(t)
    \/ \E t \in DOMAIN stage : r_cancel_clear(t)
    \/ \E t \in DOMAIN stage : r_xfer(t)
    \/ \E t \in DOMAIN stage : r_store(t)

\* The threads of the stages are scheduled fairly, and so is the thread that
\* has called stop().
PipeSpec ==
    /\ PipeInit
    /\ [][PipeNext]_vars
    /\ \A t \in 0 .. MaxStages - 1 : WF_vars(StageNext(t))
    /\ WF_vars(StopNext)

\* The pipeline constructed and started, stop() never called: the stages run
\* until their functions return false.  No cancel() is called, so no read
\* finds m_is_reading_cancelled set and r_cancel_clear has no part here.
StartNext ==
    \/ construct_stage
    \/ set_ringbuffers
    \/ start_running
    \/ start_post
    \/ \E t \in 0 .. MaxStages - 1 : run_wait(t)
    \/ \E t \in 0 .. MaxStages - 1 : run_test(t)
    \/ \E t \in 0 .. MaxStages - 1 : producer_fails(t)
    \/ \E t \in 0 .. MaxStages - 1 : producer_idles(t)
    \/ \E t \in 0 .. MaxStages - 1 : producer_writes(t)
    \/ \E t \in 0 .. MaxStages - 1 : stage_reads(t)
    \/ \E t \in 0 .. MaxStages - 1 : stage_writes(t)
    \/ \E t \in DOMAIN stage : w_load_produced(t)
    \/ \E t \in DOMAIN stage : w_load_consumed(t)
    \/ \E t \in DOMAIN stage : w_dropped(t)
    \/ \E t \in DOMAIN stage : w_xfer(t)
    \/ \E t \in DOMAIN stage : w_store(t)
    \/ \E t \in DOMAIN stage : w_post(t)
    \/ \E t \in DOMAIN stage : r_load_produced(t)
    \/ \E t \in DOMAIN stage : r_load_consumed(t)
    \/ \E t \in DOMAIN stage : r_wait(t)
    \/ \E t \in DOMAIN stage : r_cancel_test(t)
    \/ \E t \in DOMAIN stage : r_xfer(t)
    \/ \E t \in DOMAIN stage : r_store(t)

StartSpec ==
    /\ PipeInit
    /\ [][StartNext]_vars
    /\ \A t \in 0 .. MaxStages - 1 : WF_vars(StageNext(t))

\* signal_handler() run between the construction of the pipeline and
\* start(): pipeline->stop(), m_running = false
sig_stop_running ==
    /\ main.pc = "start"
    /\ \A q \in DOMAIN m_flags : ~m_is_reading_cancelled[q]
    /\ m_running' = FALSE
    /\ main' = [pc |-> "signal", n |-> 0]
    /\ UNCHANGED <<rbwired, m_size, m_semaphore, stage>>

\* signal_handler(): stop() calls m_ringbuffers[n]->cancel(CONSUMER) for each
\* n in turn, the next queue being the first not cancelled yet
sig_stop_cancel ==
    /\ main.pc = "signal"
    /\ \E n \in DOMAIN m_flags :
          /\ ~m_is_reading_cancelled[n]
          /\ \A q \in DOMAIN m_flags : q < n => m_is_reading_cancelled[q]
          /\ CancelCall(n, CONSUMER)

\* signal_handler() returns and main() goes on to pipeline->start()
sig_stop_return ==
    /\ main.pc = "signal"
    /\ \A q \in DOMAIN m_flags : m_is_reading_cancelled[q]
    /\ xc.pc = "idle"
    /\ main' = [pc |-> "start", n |-> 0]
    /\ UNCHANGED <<rbwired, m_size, m_running, m_semaphore, stage>>

\* The pipeline constructed and started, with a signal that may be handled
\* before start() is called, and no stop() after it.
SignalNext ==
    \/ construct_stage
    \/ set_ringbuffers
    \/ sig_stop_running
    \/ sig_stop_cancel
    \/ x_post_reading
    \/ sig_stop_return
    \/ start_running
    \/ start_post
    \/ \E t \in 0 .. MaxStages - 1 : run_wait(t)
    \/ \E t \in 0 .. MaxStages - 1 : run_test(t)
    \/ \E t \in 0 .. MaxStages - 1 : producer_fails(t)
    \/ \E t \in 0 .. MaxStages - 1 : producer_idles(t)
    \/ \E t \in 0 .. MaxStages - 1 : producer_writes(t)
    \/ \E t \in 0 .. MaxStages - 1 : stage_reads(t)
    \/ \E t \in 0 .. MaxStages - 1 : stage_writes(t)
    \/ \E t \in DOMAIN stage : w_load_produced(t)
    \/ \E t \in DOMAIN stage : w_load_consumed(t)
    \/ \E t \in DOMAIN stage : w_dropped(t)
    \/ \E t \in DOMAIN stage : w_xfer(t)
    \/ \E t \in DOMAIN stage : w_store(t)
    \/ \E t \in DOMAIN stage : w_post(t)
    \/ \E t \in DOMAIN stage : r_load_produced(t)
    \/ \E t \in DOMAIN stage : r_load_consumed(t)
    \/ \E t \in DOMAIN stage : r_wait(t)
    \/ \E t \in DOMAIN stage : r_cancel_test(t)
    \/ \E t \in DOMAIN stage : r_cancel_clear(t)
    \/ \E t \in DOMAIN stage : r_xfer(t)
    \/ \E t \in DOMAIN stage : r_store(t)

SignalSpec == PipeInit /\ [][SignalNext]_vars

\* The pipeline run with stage functions of any kind: each stage may return
\* false on any of its invocations.
FailNext ==
    \/ construct_stage
    \/ set_ringbuffers
    \/ start_running
    \/ start_post
    \/ stop_running
    \/ stop_cancel
    \/ x_post_reading
    \/ stop_return
    \/ join
    \/ \E t \in 0 .. MaxStages - 1 : run_wait(t)
    \/ \E t \in 0 .. MaxStages - 1 : run_test(t)
    \/ \E t \in 0 .. MaxStages - 1 : producer_fails(t)
    \/ \E t \in 0 .. MaxStages - 1 : producer_idles(t)
    \/ \E t \in 0 .. MaxStages - 1 : producer_writes(t)
    \/ \E t \in 0 .. MaxStages - 1 : stage_reads(t)
    \/ \E t \in 0 .. MaxStages - 1 : stage_writes(t)
    \/ \E t \in DOMAIN stage : w_load_produced(t)
    \/ \E t \in DOMAIN stage : w_load_consumed(t)
    \/ \E t \in DOMAIN stage : w_dropped(t)
    \/ \E t \in DOMAIN stage : w_xfer(t)
    \/ \E t \in DOMAIN stage : w_store(t)
    \/ \E t \in DOMAIN stage : w_post(t)
    \/ \E t \in DOMAIN stage : r_load_produced(t)
    \/ \E t \in DOMAIN stage : r_load_consumed(t)
    \/ \E t \in DOMAIN stage : r_wait(t)
    \/ \E t \in DOMAIN stage : r_cancel_test(t)
    \/ \E t \in DOMAIN stage : r_cancel_clear(t)
    \/ \E t \in DOMAIN stage : r_xfer(t)
    \/ \E t \in DOMAIN stage : r_store(t)
    \/ \E t \in 0 .. MaxStages - 1 : stage_fails(t)

FailSpec == PipeInit /\ [][FailNext]_vars

\* A pipeline of three stages: the first emits 1 .. MaxPiped, the middle one
\* doubles, the last records what it reads, which is delivered of its input
\* queue.  stop() is not called.
EmitInit == PipeInit /\ m_size = EmitStages

EmitNext ==
    \/ construct_stage
    \/ set_ringbuffers
    \/ start_running
    \/ start_post
    \/ \E t \in 0 .. MaxStages - 1 : run_wait(t)
    \/ \E t \in 0 .. MaxStages - 1 : run_test(t)
    \/ \E t \in 0 .. MaxStages - 1 : stage_reads(t)
    \/ \E t \in DOMAIN stage : w_load_produced(t)
    \/ \E t \in DOMAIN stage : w_load_consumed(t)
    \/ \E t \in DOMAIN stage : w_dropped(t)
    \/ \E t \in DOMAIN stage : w_xfer(t)
    \/ \E t \in DOMAIN stage : w_store(t)
    \/ \E t \in DOMAIN stage : w_post(t)
    \/ \E t \in DOMAIN stage : r_load_produced(t)
    \/ \E t \in DOMAIN stage : r_load_consumed(t)
    \/ \E t \in DOMAIN stage : r_wait(t)
    \/ \E t \in DOMAIN stage : r_cancel_test(t)
    \/ \E t \in DOMAIN stage : r_xfer(t)
    \/ \E t \in DOMAIN stage : r_store(t)
    \/ \E t \in 0 .. MaxStages - 1 : emit_writes(t)
    \/ \E t \in 0 .. MaxStages - 1 : emit_ends(t)
    \/ \E t \in 0 .. MaxStages - 1 : double_writes(t)

\* The constructing thread and the threads of the stages are scheduled fairly.
EmitSpec ==
    /\ EmitInit
    /\ [][EmitNext]_vars
    /\ WF_vars(StartMain)
    /\ \A t \in 0 .. MaxStages - 1 : WF_vars(EmitStage(t))

\* The pipeline that emits and doubles, with the counters of its queues
\* published by relaxed stores: in each write and read the store of the
\* counter may take effect before the element accesses of the last xfer().
RelaxedEmitNext ==
    \/ construct_stage
    \/ set_ringbuffers
    \/ start_running
    \/ start_post
    \/ \E t \in 0 .. MaxStages - 1 : run_wait(t)
    \/ \E t \in 0 .. MaxStages - 1 : run_test(t)
    \/ \E t \in 0 .. MaxStages - 1 : stage_reads(t)
    \/ \E t \in DOMAIN stage : w_load_produced(t)
    \/ \E t \in DOMAIN stage : w_load_consumed(t)
    \/ \E t \in DOMAIN stage : w_dropped(t)
    \/ \E t \in DOMAIN stage : w_xfer(t)
    \/ \E t \in DOMAIN stage : w_store(t)
    \/ \E t \in DOMAIN stage : w_store_early(t)
    \/ \E t \in DOMAIN stage : w_xfer_late(t)
    \/ \E t \in DOMAIN stage : w_post(t)
    \/ \E t \in DOMAIN stage : r_load_produced(t)
    \/ \E t \in DOMAIN stage : r_load_consumed(t)
    \/ \E t \in DOMAIN stage : r_wait(t)
    \/ \E t \in DOMAIN stage : r_cancel_test(t)
    \/ \E t \in DOMAIN stage : r_xfer(t)
    \/ \E t \in DOMAIN stage : r_store(t)
    \/ \E t \in DOMAIN stage : r_store_early(t)
    \/ \E t \in DOMAIN stage : r_xfer_late(t)
    \/ \E t \in 0 .. MaxStages - 1 : emit_writes(t)
    \/ \E t \in 0 .. MaxStages - 1 : emit_ends(t)
    \/ \E t \in 0 .. MaxStages - 1 : double_writes(t)

RelaxedEmitSpec == EmitInit /\ [][RelaxedEmitNext]_vars

\* s is t with some of its elements left out: the elements of s are elements
\* of t at increasing positions.
IsSubsequence(s, t) ==
    \E f \in [1 .. Len(s) -> 1 .. Len(t)] :
        /\ \A i \in 1 .. Len(s) : s[i] = t[f[i]]
        /\ \A i, j \in 1 .. Len(s) : i < j => f[i] < f[j]

\* The elements stage q has tried to write to queue q so far, in order: the
\* first stage the integers from 1 up to the one of its latest write,
\* returned or in progress, a middle stage the doubles of what it has read.
Tried(q) ==
    IF q = 0
    THEN LET done == Len(accepted[0]) + m_dropped[0]
             now == IF th[0].op = "write" THEN th[0].req[1] ELSE 0
         IN  [i \in 1 .. (IF now > done THEN now ELSE done) |-> i]
    ELSE [i \in 1 .. Len(delivered[q - 1]) |-> Doubled(delivered[q - 1][i])]

\* ------------------------------------------------------------------ claims
\* C1: with one producer thread and one consumer thread running concurrently,
\* whatever the flags and without reset, in every reachable state
\* 0 <= produced - consumed <= capacity.
C1_CountersInRange ==
    \A q \in Queues :
        /\ 0 <= m_produced[q] - m_consumed[q]
        /\ m_produced[q] - m_consumed[q] <= m_capacity[q]

\* C1 witness: the buffer is full after the counters have passed the capacity,
\* while a write and a read are both in flight.
C1_Witness ==
    /\ m_produced[TheQueue] - m_consumed[TheQueue] = m_capacity[TheQueue]
    /\ m_produced[TheQueue] > m_capacity[TheQueue]
    /\ th[ProducerThread].pc # "idle"
    /\ th[ConsumerThread].pc # "idle"

\* C2: at every moment the elements handed out by reads are, in order, a prefix
\* of the elements published by writes (the first k of a write that returns k).
C2_DeliveredIsPrefix ==
    \A q \in Queues : IsPrefix(delivered[q], accepted[q])

\* C2 witness: more elements than the storage has slots were accepted, so a
\* write went around the end of the storage, and all of them were read.
C2_Witness ==
    /\ Len(accepted[TheQueue]) > m_capacity[TheQueue]
    /\ delivered[TheQueue] = accepted[TheQueue]

\* C3: read side blocking. After a cancel(CONSUMER) has completed, its flag is
\* set only while the pass that lets a parked read through is still in the
\* semaphore or the read that took it is between wait() and its test of the
\* flag; the read that finds the flag after wait() returns OPERATION_CANCELLED;
\* every return of OPERATION_CANCELLED from read() clears a set flag, so it
\* happens once for the cancel, and only cancel sets the flag; once the
\* cancelled read has returned the flag is clear, and a read that finds
\* elements goes on to transfer them whatever the flag is.
C3_CancelledReadOnce ==
    /\ [](\A q \in Queues :
            /\ (m_is_reading_cancelled[q] /\ xc.pc = "idle") =>
                  \/ m_reading_semaphore[q]
                  \/ \E t \in Threads : /\ th[t].q = q
                                        /\ th[t].pc \in {"r_cancel_test", "r_cancel_clear"}
            /\ (ncancelled[CONSUMER] = ncancel[CONSUMER] /\ xc.pc = "idle") =>
                  ~m_is_reading_cancelled[q])
    /\ [][\A t \in Threads :
            /\ (th[t].pc = "r_cancel_test" /\ th'[t].pc # "r_cancel_test"
                    /\ m_is_reading_cancelled[th[t].q]) =>
                  th'[t].pc = "r_cancel_clear"
            /\ (th[t].pc = "r_cancel_clear" /\ th'[t].pc # "r_cancel_clear") =>
                  /\ th'[t].pc = "idle"
                  /\ th'[t].ret = OPERATION_CANCELLED
            /\ (th[t].op = "read" /\ th'[t].pc = "idle"
                    /\ th'[t].ret = OPERATION_CANCELLED) =>
                  /\ m_is_reading_cancelled[th[t].q]
                  /\ ~m_is_reading_cancelled'[th[t].q]
            /\ (~m_is_reading_cancelled[TheQueue] /\ m_is_reading_cancelled'[TheQueue]) =>
                  /\ xc.pc = "idle"
                  /\ xc'.pc = "x_post_reading"
            /\ (th[t].pc = "r_load_consumed" /\ th'[t].pc # "r_load_consumed"
                    /\ th[t].produced - m_consumed[th[t].q] > 0) =>
                  th'[t].pc \in {"r_xfer_split", "r_xfer"}]_vars

\* C3 witness: one cancel(CONSUMER) was made, a read has returned
\* OPERATION_CANCELLED for it, and the read made after that one has returned
\* elements.
C3_Witness ==
    /\ ncancel[CONSUMER] = 1
    /\ ncancelled[CONSUMER] = 1
    /\ ~m_is_reading_cancelled[TheQueue]
    /\ th[ConsumerThread].pc = "idle"
    /\ th[ConsumerThread].ret >= 1

\* C5: write side non-blocking. A write of n >= 1 elements that finds no free
\* slot goes on to reject the request, whatever n is; a write returns
\* WOULD_BLOCK only that way; the rejection returns WOULD_BLOCK and adds exactly
\* one to dropped; neither step changes produced, consumed or a slot of the
\* storage, and the elements offered are all still with the caller.
C5_FullWriteDropped ==
    [][\A t \in Threads :
          /\ (/\ th[t].pc = "w_load_consumed" /\ th'[t].pc # "w_load_consumed"
              /\ test(th[t].q, RINGBUFFER_NONBLOCKING_WRITE_SHIFT)
              /\ m_capacity[th[t].q] - (th[t].produced - m_consumed[th[t].q]) = 0) =>
                /\ th'[t].pc = "w_dropped"
                /\ th'[t].n = th[t].n
                /\ th'[t].data = th[t].data
                /\ UNCHANGED <<m_produced, m_consumed, m_dropped, m_buffer>>
          /\ (th[t].op = "write" /\ th'[t].pc = "idle" /\ th'[t].ret = WOULD_BLOCK) =>
                th[t].pc = "w_dropped"
          /\ (th[t].pc = "w_dropped" /\ th'[t].pc # "w_dropped") =>
                /\ th'[t].pc = "idle"
                /\ th'[t].ret = WOULD_BLOCK
                /\ m_dropped'[th[t].q] = m_dropped[th[t].q] + 1
                /\ UNCHANGED <<m_produced, m_consumed, m_buffer>>
                /\ \A i \in 0 .. th[t].n - 1 : th[t].data[i] = th[t].req[i + 1]]_vars

\* C5 witness: a write has returned WOULD_BLOCK, dropped counts it, and the
\* buffer is still full of the elements published before.
C5_Witness ==
    /\ th[ProducerThread].pc = "idle"
    /\ th[ProducerThread].ret = WOULD_BLOCK
    /\ m_dropped[TheQueue] = 1
    /\ m_produced[TheQueue] - m_consumed[TheQueue] = m_capacity[TheQueue]
    /\ \A i \in 1 .. m_capacity[TheQueue] : m_buffer[TheQueue][i - 1] = accepted[TheQueue][i]

\* C6: a write of n >= 1 elements that finds free >= 1 free slots goes on to
\* transfer min(n, free) elements without waiting, blocking or not; when it
\* publishes, the slots from the old produced on hold the first min(n, free)
\* elements of the request, produced advances by that number, dropped is
\* unchanged, and that number is what the call returns.  A read of n >= 1 that
\* finds avail >= 1 elements goes on to transfer min(n, avail) without waiting;
\* when it retires them the caller's array holds the oldest min(n, avail)
\* elements, consumed advances by that number and the call returns it.
C6_PartialTransfer ==
    [][\A t \in Threads :
          /\ (/\ th[t].pc = "w_load_consumed" /\ th'[t].pc # "w_load_consumed"
              /\ m_capacity[th[t].q] - (th[t].produced - m_consumed[th[t].q]) >= 1) =>
                /\ th'[t].pc \in {"w_xfer_split", "w_xfer"}
                /\ th'[t].count =
                      Min(th[t].n, m_capacity[th[t].q] - (th[t].produced - m_consumed[th[t].q]))
          /\ (th[t].pc \in {"w_xfer_split", "w_xfer", "w_store", "r_xfer_split", "r_xfer",
                            "r_store"} /\ th'[t].pc # "idle") =>
                th'[t].count = th[t].count
          /\ (th[t].pc = "w_store" /\ th'[t].pc # "w_store") =>
                /\ \A i \in 0 .. th[t].count - 1 :
                      m_buffer[th[t].q][(m_produced[th[t].q] + i) % m_capacity[th[t].q]]
                          = th[t].req[i + 1]
                /\ m_produced'[th[t].q] = m_produced[th[t].q] + th[t].count
                /\ UNCHANGED <<m_consumed, m_dropped, m_buffer>>
          /\ (th[t].op = "write" /\ th'[t].pc = "idle" /\ th'[t].ret >= 1) =>
                /\ th[t].pc \in {"w_store", "w_post"}
                /\ th'[t].ret = th[t].count
                /\ m_produced'[th[t].q] = th[t].produced + th[t].count
          /\ (/\ th[t].pc = "r_load_consumed" /\ th'[t].pc # "r_load_consumed"
              /\ th[t].produced - m_consumed[th[t].q] >= 1) =>
                /\ th'[t].pc \in {"r_xfer_split", "r_xfer"}
                /\ th'[t].count = Min(th[t].n, th[t].produced - m_consumed[th[t].q])
          /\ (th[t].pc = "r_store" /\ th'[t].pc # "r_store") =>
                /\ \A i \in 0 .. th[t].count - 1 :
                      th[t].data[i] = accepted[th[t].q][m_consumed[th[t].q] + i + 1]
                /\ m_consumed'[th[t].q] = m_consumed[th[t].q] + th[t].count
                /\ UNCHANGED <<m_produced, m_dropped>>
          /\ (th[t].op = "read" /\ th'[t].pc = "idle" /\ th'[t].ret >= 1) =>
                /\ th[t].pc \in {"r_store", "r_post"}
                /\ th'[t].ret = th[t].count
                /\ m_consumed'[th[t].q] = th[t].consumed + th[t].count]_vars

\* C6 witness: on a buffer blocking on both sides, a write of more elements
\* than there was room for has published the ones that fitted and is about to
\* return, without having waited for room for the rest.
C6_Witness ==
    /\ m_flags[TheQueue] = RINGBUFFER_RD_BLOCKING_WR_BLOCKING
    /\ th[ProducerThread].pc = "w_post"
    /\ th[ProducerThread].count < th[ProducerThread].n
    /\ m_produced[TheQueue] = th[ProducerThread].produced + th[ProducerThread].count
    /\ m_dropped[TheQueue] = 0

\* C7: on a freshly constructed buffer, whatever its flags and the overloads
\* used, a write of N elements (1 <= N <= capacity) followed by a read of N
\* elements, no callback returning false, both return N, the read hands back
\* the elements written, in order, and afterwards dropped = 0 and
\* produced = consumed = N.
C7_RoundTrip ==
    \A N \in 1 .. Capacity :
        (/\ seq /\ ncalls = 2
         /\ \A t \in Threads : th[t].pc = "idle"
         /\ log[1].op = "write" /\ log[1].n = N /\ ~log[1].cb_false
         /\ log[2].op = "read" /\ log[2].n = N /\ ~log[2].cb_false) =>
            /\ log[1].ret = N
            /\ log[2].ret = N
            /\ log[2].data = log[1].data
            /\ m_dropped[TheQueue] = 0
            /\ m_produced[TheQueue] = N
            /\ m_consumed[TheQueue] = N

\* C7 witness: a write of as many elements as the buffer holds, then a read of
\* as many, have both returned that number.
C7_Witness ==
    /\ seq /\ ncalls = 2
    /\ \A t \in Threads : th[t].pc = "idle"
    /\ log[1].op = "write" /\ log[1].n = Capacity /\ log[1].ret = Capacity
    /\ log[2].op = "read" /\ log[2].n = Capacity /\ log[2].ret = Capacity
    /\ DOMAIN log[2].data = 0 .. Capacity - 1

\* C8 as stated: over writes, reads, cancel and reset of any role, no step
\* makes dropped smaller.
C8_DroppedNeverDecreases ==
    [][\A q \in Queues : m_dropped'[q] >= m_dropped[q]]_vars

\* C8, amended: over writes, reads, cancel and reset of any role, the only
\* steps that make dropped smaller are the store to dropped of reset(PRODUCER)
\* and of reset(NONE), which set it to 0; every other step, those of
\* reset(CONSUMER) included, leaves it as it is or adds to it.
C8_DroppedDecreasesOnlyOnReset ==
    [][\A q \in Queues :
          /\ m_dropped'[q] < m_dropped[q] =>
                \E t \in Threads :
                    /\ th[t].pc \in {"reset_store_dropped", "reset_zero_dropped"}
                    /\ th[t].kind \in {PRODUCER, NONE}
                    /\ th[t].q = q
                    /\ th'[t].pc = "idle"
          /\ \A t \in Threads :
                (th[t].pc \in {"reset_store_dropped", "reset_zero_dropped"}
                     /\ th'[t].pc = "idle" /\ th[t].q = q) =>
                    m_dropped'[q] = 0]_vars

\* C8 witness: a write was rejected and counted, the reset that followed has
\* returned, and dropped is 0 again.
C8_Witness ==
    /\ seq
    /\ \A t \in Threads : th[t].pc = "idle"
    /\ log[1].op = "write" /\ log[1].ret = WOULD_BLOCK
    /\ log[2].op = "reset"
    /\ m_dropped[TheQueue] = 0

\* C9: a write or a read of n >= 1 elements returns a count from 1 to
\* min(n, capacity) or one of INTERNAL_ERROR, WOULD_BLOCK, OPERATION_CANCELLED,
\* never 0; WOULD_BLOCK only when its face is non-blocking, OPERATION_CANCELLED
\* only when its face is blocking.  A blocking call that has passed wait() and
\* finds its cancel flag clear does not return but reads the counters again,
\* and if the buffer is still empty (for a write, full) it goes back to wait().
C9_ReturnValues ==
    [][\A t \in Threads :
          /\ (th[t].op \in {"write", "read"} /\ th[t].n >= 1 /\ th'[t].pc = "idle") =>
                /\ \/ th'[t].ret \in 1 .. Min(th[t].n, m_capacity[th[t].q])
                   \/ th'[t].ret \in {INTERNAL_ERROR, WOULD_BLOCK, OPERATION_CANCELLED}
                /\ th'[t].ret = WOULD_BLOCK =>
                      test(th[t].q, IF th[t].op = "write"
                                    THEN RINGBUFFER_NONBLOCKING_WRITE_SHIFT
                                    ELSE RINGBUFFER_NONBLOCKING_READ_SHIFT)
                /\ th'[t].ret = OPERATION_CANCELLED =>
                      ~test(th[t].q, IF th[t].op = "write"
                                     THEN RINGBUFFER_NONBLOCKING_WRITE_SHIFT
                                     ELSE RINGBUFFER_NONBLOCKING_READ_SHIFT)
          /\ (/\ th[t].pc = "r_cancel_test" /\ th'[t].pc # "r_cancel_test"
              /\ ~m_is_reading_cancelled[th[t].q]) =>
                th'[t].pc = "r_load_produced"
          /\ (/\ th[t].pc = "w_cancel_test" /\ th'[t].pc # "w_cancel_test"
              /\ ~m_is_writing_cancelled[th[t].q]) =>
                th'[t].pc = "w_load_produced"
          /\ (/\ th[t].pc = "r_load_consumed" /\ th'[t].pc # "r_load_consumed"
              /\ ~test(th[t].q, RINGBUFFER_NONBLOCKING_READ_SHIFT)
              /\ th[t].produced - m_consumed[th[t].q] = 0) =>
                th'[t].pc = "r_wait"
          /\ (/\ th[t].pc = "w_load_consumed" /\ th'[t].pc # "w_load_consumed"
              /\ ~test(th[t].q, RINGBUFFER_NONBLOCKING_WRITE_SHIFT)
              /\ th[t].produced - m_consumed[th[t].q] = m_capacity[th[t].q]) =>
                th'[t].pc = "w_wait"]_vars

\* C9 witness: a read has come out of wait() on a pass left by a write made
\* before it parked, the buffer is empty and no cancel was ever made.
C9_Witness ==
    /\ th[ConsumerThread].pc = "r_cancel_test"
    /\ m_produced[TheQueue] = m_consumed[TheQueue]
    /\ m_produced[TheQueue] >= 1
    /\ ~m_is_reading_cancelled[TheQueue]
    /\ xc.pc = "idle"
    /\ ncancel[CONSUMER] = 0

\* C10: when the callback of write(callback, n) or read(callback, n) returns
\* false, in either segment of the transfer, the call gives up: that step and
\* the return that follows leave produced, consumed and dropped as they were
\* when the call read them and post no semaphore, and the call returns
\* INTERNAL_ERROR; a callback transfer reaches its store only when the
\* callback returned true for every element.  The read made after a read
\* whose callback returned false hands out, from the first element on, the
\* elements that read had handed to its callback.
C10_CallbackFailure ==
    /\ [](\A t \in Threads :
            (th[t].pc \in {"w_store", "r_store"} /\ th[t].kind = "functor") =>
                th[t].calls = th[t].count)
    /\ []((logged /\ \A t \in Threads : th[t].pc = "idle") =>
            /\ log[2].cb_false => log[2].ret = INTERNAL_ERROR
            /\ (log[1].op = "read" /\ log[1].cb_false /\ log[2].op = "read") =>
                  \A i \in DOMAIN log[1].data \cap DOMAIN log[2].data :
                      (log[1].data[i] # Empty /\ log[2].data[i] # Empty) =>
                          log[2].data[i] = log[1].data[i])
    /\ [][\A t \in Threads :
            /\ (th'[t].pc \in {"w_xfer_failed", "r_xfer_failed"}
                    /\ th[t].pc # th'[t].pc) =>
                  /\ th[t].kind = "functor"
                  /\ th'[t].calls < th[t].count
                  /\ UNCHANGED <<m_produced, m_consumed, m_dropped,
                                 m_writing_semaphore, m_reading_semaphore>>
            /\ (th[t].pc \in {"w_xfer_failed", "r_xfer_failed"}
                    /\ th[t].pc # th'[t].pc) =>
                  /\ th'[t].pc = "idle"
                  /\ th'[t].ret = INTERNAL_ERROR
                  /\ UNCHANGED <<m_produced, m_consumed, m_dropped, m_buffer,
                                 m_writing_semaphore, m_reading_semaphore>>
                  /\ m_produced[th[t].q] = th[t].produced
                  /\ m_consumed[th[t].q] = th[t].consumed]_vars

\* C10 witness: a read of two elements whose callback took the first and
\* returned false at the second has returned INTERNAL_ERROR, and the read
\* made after it has handed out that first element again.
C10_Witness ==
    /\ logged
    /\ \A t \in Threads : th[t].pc = "idle"
    /\ log[1].op = "read" /\ log[1].cb_false /\ log[1].ret = INTERNAL_ERROR
    /\ log[1].data[0] # Empty
    /\ log[2].op = "read" /\ log[2].ret >= 1
    /\ log[2].data[0] = log[1].data[0]
    /\ m_consumed[TheQueue] = log[2].ret

\* C4: in a pipeline of N >= 1 stages, once start() has been called and stop()
\* has then stored false in m_running, the thread of every stage eventually
\* leaves the loop of run() and join() returns, the threads being scheduled
\* fairly and a stage returning false when its read does not return 1.
C4_StopThenJoinReturns ==
    (main.pc = "stop") ~> (main.pc = "joined" /\ \A t \in DOMAIN stage : stage[t] = "done")

\* C4 witness: in a pipeline of three stages join() has returned after a stop()
\* whose cancel was what a parked read returned on.
C4_Witness ==
    /\ m_size = MaxStages
    /\ main.pc = "joined"
    /\ ncancelled[CONSUMER] >= 1
    /\ \A t \in DOMAIN stage : stage[t] = "done"

\* C11: with no call in flight on either side, reset(PRODUCER) loads consumed
\* without changing a counter, stores that value in produced, then 0 in
\* dropped, and never touches consumed: when it returns produced = consumed
\* (the buffer is empty), dropped = 0 and consumed is what it was when the
\* call began.  A write of k <= capacity elements made right after it returns
\* k and leaves produced = consumed + k, consumed being the pre-reset value.
C11_ProducerReset ==
    /\ [][\A t \in Threads :
            (/\ th[t].op = "reset" /\ th[t].kind = PRODUCER /\ th'[t].pc # th[t].pc
             /\ \A u \in Threads \ {t} : th[u].pc = "idle") =>
                /\ th[t].pc = "reset_load_consumed" =>
                      /\ th'[t].consumed = m_consumed[th[t].q]
                      /\ UNCHANGED <<m_produced, m_consumed, m_dropped>>
                /\ th[t].pc = "reset_store_produced" =>
                      /\ m_produced'[th[t].q] = m_consumed[th[t].q]
                      /\ UNCHANGED <<m_consumed, m_dropped>>
                /\ th[t].pc = "reset_store_dropped" =>
                      /\ th'[t].pc = "idle"
                      /\ m_dropped'[th[t].q] = 0
                      /\ m_produced'[th[t].q] = m_consumed'[th[t].q]
                      /\ m_consumed'[th[t].q] = th[t].consumed
                      /\ UNCHANGED <<m_produced, m_consumed>>]_vars
    /\ []((/\ \A t \in Threads : th[t].pc = "idle"
           /\ log[1].op = "reset" /\ log[1].role = PRODUCER
           /\ log[2].op = "write" /\ log[2].n <= m_capacity[TheQueue]) =>
              /\ log[2].ret = log[2].n
              /\ m_dropped[TheQueue] = 0
              /\ m_produced[TheQueue] = m_consumed[TheQueue] + log[2].n)

\* C11 witness: elements were published and one of them read, reset(PRODUCER)
\* has discarded the unread ones, and the write made after it has returned
\* its count.
C11_Witness ==
    /\ \A t \in Threads : th[t].pc = "idle"
    /\ log[1].op = "reset" /\ log[1].role = PRODUCER
    /\ log[2].op = "write" /\ log[2].ret = log[2].n
    /\ m_consumed[TheQueue] >= 1
    /\ Len(accepted[TheQueue]) > m_produced[TheQueue]
    /\ m_produced[TheQueue] = m_consumed[TheQueue] + log[2].n

\* C12: with no call in flight on either side, reset(CONSUMER) loads produced
\* without changing a counter and stores that value in consumed, leaving
\* produced and dropped as they were: when it returns consumed = produced.
\* A non-blocking read made right after it returns WOULD_BLOCK.  When a write
\* made right after it has published elements, the read that comes next hands
\* out those elements from the first one on, in order, as many as it was
\* asked for and were published.
C12_ConsumerReset ==
    /\ [][\A t \in Threads :
            /\ (/\ th[t].op = "reset" /\ th[t].kind = CONSUMER /\ th'[t].pc # th[t].pc
                /\ \A u \in Threads \ {t} : th[u].pc = "idle") =>
                   /\ th[t].pc = "reset_load_produced" =>
                         /\ th'[t].produced = m_produced[th[t].q]
                         /\ UNCHANGED <<m_produced, m_consumed, m_dropped>>
                   /\ th[t].pc = "reset_store_consumed" =>
                         /\ th'[t].pc = "idle"
                         /\ m_consumed'[th[t].q] = m_produced[th[t].q]
                         /\ m_produced[th[t].q] = th[t].produced
                         /\ UNCHANGED <<m_produced, m_dropped>>
            /\ (/\ th[t].op = "read" /\ th'[t].pc = "idle" /\ th'[t].ret >= 1
                /\ log[1].op = "reset" /\ log[1].role = CONSUMER
                /\ log[2].op = "write" /\ log[2].ret >= 1) =>
                   /\ th'[t].ret = Min(th[t].n, log[2].ret)
                   /\ \A i \in 0 .. th'[t].ret - 1 : th[t].data[i] = log[2].data[i]]_vars
    /\ []((/\ \A t \in Threads : th[t].pc = "idle"
           /\ log[1].op = "reset" /\ log[1].role = CONSUMER
           /\ log[2].op = "read" /\ log[2].n >= 1
           /\ test(TheQueue, RINGBUFFER_NONBLOCKING_READ_SHIFT)) =>
              /\ log[2].ret = WOULD_BLOCK
              /\ m_consumed[TheQueue] = m_produced[TheQueue])

\* C12 witness: reset(CONSUMER) has discarded an element that was never read,
\* a write has published another, and the read made after it is about to
\* retire that one, the first written after the reset.
C12_Witness ==
    /\ log[1].op = "reset" /\ log[1].role = CONSUMER
    /\ log[2].op = "write" /\ log[2].ret >= 1
    /\ th[ConsumerThread].pc = "r_store"
    /\ Len(delivered[TheQueue]) < m_consumed[TheQueue]
    /\ th[ConsumerThread].data[0] = log[2].data[0]
    /\ th[ConsumerThread].data[0] # accepted[TheQueue][1]

\* C13: a wait() reaches its store of false only from its test of m_ready,
\* having found it true, and clears it holding the mutex it held at the test;
\* it returns only after that store.  m_ready goes from true to false only by
\* that store and from false to true only by the store of a post(); a post()
\* that finds m_ready true leaves it true.  So the waits that have returned or
\* cleared, plus one if m_ready is true, are exactly as many as the times
\* m_ready became true (construction with ready = true included), however
\* many posts were made.  A thread in post() is never blocked in the condition
\* variable, it can take its next step whenever the mutex is free or its own,
\* and whoever holds the mutex can take its next step.
C13_WaitConsumesOnePost ==
    /\ [](\A t \in SemThreads :
            /\ sm[t].pc = "wait_clear" => (m_mutex = t /\ m_ready)
            /\ sm[t].op = "post" =>
                  /\ t \notin m_condvar
                  /\ m_mutex \in {"free", t} => ENABLED SemStep(t)
            /\ m_mutex = t => ENABLED SemStep(t))
    /\ [](tally.returned + Cardinality({t \in SemThreads : sm[t].pc = "wait_unlock"})
              + (IF m_ready THEN 1 ELSE 0) = tally.granted)
    /\ [](tally.granted <= tally.pcalls + (IF tally.initial THEN 1 ELSE 0))
    /\ [][/\ \A t \in SemThreads :
              /\ (sm[t].pc = "post_set" /\ sm'[t].pc # "post_set") =>
                    /\ m_ready'
                    /\ tally'.granted = tally.granted + (IF m_ready THEN 0 ELSE 1)
              /\ (sm[t].op = "wait" /\ sm'[t].pc = "idle") =>
                    /\ sm[t].pc = "wait_unlock"
                    /\ tally'.returned = tally.returned + 1
              /\ (sm'[t].pc = "wait_unlock" /\ sm[t].pc # "wait_unlock") =>
                    /\ sm[t].pc = "wait_clear"
                    /\ m_ready /\ ~m_ready'
                    /\ m_mutex = t /\ m_mutex' = t
              /\ (sm'[t].pc = "wait_clear" /\ sm[t].pc # "wait_clear") =>
                    /\ sm[t].pc = "wait_test"
                    /\ m_ready /\ m_ready'
                    /\ m_mutex = t /\ m_mutex' = t
          /\ (m_ready /\ ~m_ready') => \E t \in SemThreads : sm[t].pc = "wait_clear"
          /\ (~m_ready /\ m_ready') => \E t \in SemThreads : sm[t].pc = "post_set"
          /\ tally'.returned # tally.returned =>
                \E t \in SemThreads : sm[t].pc = "wait_unlock" /\ sm'[t].pc = "idle"]_vars

\* C13 witness: two posts were made on a semaphore constructed not ready, the
\* second while m_ready was already true; one wait has returned, the flag is
\* false again and a second wait is blocked.
C13_Witness ==
    /\ ~tally.initial
    /\ tally.posts = 2
    /\ tally.granted = 1
    /\ tally.returned = 1
    /\ ~m_ready
    /\ m_condvar # {}
    /\ \A t \in SemThreads : sm[t].pc = "idle" \/ t \in m_condvar

\* C14 as stated: on a semaphore constructed not ready, when every call has
\* returned or is blocked in the condition variable, and the k-th wait was
\* begun only after the k-th post had returned, the waits that have returned
\* are min(posts, waits).
C14_ReturnedIsMinPostsWaits ==
    (/\ \A t \in SemThreads : sm[t].pc = "idle" \/ t \in m_condvar
     /\ ~tally.initial
     /\ tally.ordered) =>
        tally.returned = Min(tally.posts, tally.waits)

\* C14, amended: on a semaphore constructed not ready, when every call has
\* returned or is blocked in the condition variable, the waits that have
\* returned are min(g, waits), g being the number of posts that found m_ready
\* false; a post that finds m_ready true releases no wait of its own, whether
\* or not it was delivered before the wait started.  No wait stays blocked
\* while m_ready is true.
C14_ReturnedIsMinGrantedWaits ==
    (/\ \A t \in SemThreads : sm[t].pc = "idle" \/ t \in m_condvar
     /\ ~tally.initial) =>
        /\ tally.returned = Min(tally.granted, tally.waits)
        /\ tally.granted <= tally.posts
        /\ m_condvar # {} => ~m_ready

\* C14 witness: two posts have returned, then two waits were begun, each
\* after its post; one wait has returned and the other is blocked for good.
C14_Witness ==
    /\ \A t \in SemThreads : sm[t].pc = "idle" \/ t \in m_condvar
    /\ ~tally.initial
    /\ tally.ordered
    /\ tally.posts = 2
    /\ tally.waits = 2
    /\ tally.returned = 1
    /\ Cardinality(m_condvar) = 1

\* C15 as stated: wait_timeout() returns true exactly when it has stored
\* false in m_ready, having found it true; none of its other steps writes
\* m_ready; and when it returns false m_ready is false at that moment.
C15_TimeoutMeansNotReady ==
    [][\A t \in SemThreads :
          /\ (sm[t].op = "wait_timeout" /\ sm[t].pc # "idle" /\ sm'[t].pc = "idle") =>
                /\ sm'[t].ret <=> sm[t].pc = "timed_unlock"
                /\ ~sm'[t].ret => (~m_ready /\ ~m_ready')
          /\ (sm'[t].pc = "timed_unlock" /\ sm[t].pc # "timed_unlock") =>
                /\ sm[t].pc = "timed_clear"
                /\ m_ready /\ ~m_ready'
          /\ (sm[t].op = "wait_timeout" /\ sm[t].pc # "timed_clear" /\ sm'[t] # sm[t]) =>
                m_ready' = m_ready]_vars

\* C16: a pipeline of N stages has exactly the N - 1 queues 0 .. N - 2 (none
\* when N = 1), every one of them read-blocking and write-non-blocking.  At
\* every moment no queue is the output of two stages or the input of two, and
\* a call in flight on a queue is a write by the stage whose output it is or a
\* read by the stage whose input it is.  Once the constructor has returned,
\* stage 0 has a null input, stage N - 1 a null output, and queue i is the
\* output of stage i and the input of stage i + 1 and of no other stage.
C16_ConstructedWiring ==
    /\ Queues = 0 .. m_size - 2
    /\ Cardinality(Queues) = m_size - 1
    /\ \A q \in Queues :
        /\ m_flags[q] = RINGBUFFER_RD_BLOCKING_WR_NONBLOCKING
        /\ Cardinality({t \in DOMAIN m_orb : m_orb[t] = q}) <= 1
        /\ Cardinality({t \in DOMAIN m_irb : m_irb[t] = q}) <= 1
    /\ \A t \in Threads :
        /\ th[t].op = "write" => m_orb[t] = th[t].q
        /\ th[t].op = "read" => m_irb[t] = th[t].q
    /\ main.pc \notin {"construct", "wire"} =>
        /\ m_irb[0] = nullptr
        /\ m_orb[m_size - 1] = nullptr
        /\ \A i \in 0 .. m_size - 2 :
            /\ m_orb[i] = i
            /\ m_irb[i + 1] = i
            /\ {t \in DOMAIN m_orb : m_orb[t] = i} = {i}
            /\ {t \in DOMAIN m_irb : m_irb[t] = i} = {i + 1}

\* C16 witness: in a started pipeline of three stages the middle stage is
\* writing queue 1 while the first is writing queue 0 and the last is reading
\* queue 1.
C16_Witness ==
    /\ m_size = MaxStages
    /\ main.pc = "started"
    /\ th[0].op = "write" /\ th[0].q = 0
    /\ th[1].op = "write" /\ th[1].q = 1
    /\ th[2].op = "read" /\ th[2].q = 1

\* C17: a stage function is never running, and its thread is never past
\* m_semaphore.wait(), while start() has not been called; a thread past the
\* wait has the queues the constructor wired for its stage, and they never
\* change again.  Once start() has posted a stage's semaphore the post is
\* kept until the thread takes it, also when the thread had not yet called
\* wait(); without a stop() the thread, scheduled fairly, goes past the wait,
\* reads m_running as true and calls its stage function.
C17_StartGate ==
    /\ [](\A t \in DOMAIN stage :
            stage[t] \notin {"none", "wait"} =>
                /\ main.pc \notin {"construct", "wire", "start"}
                /\ m_irb[t] = IF t = 0 THEN nullptr ELSE t - 1
                /\ m_orb[t] = IF t = m_size - 1 THEN nullptr ELSE t)
    /\ [](\A t \in DOMAIN stage :
            (main.pc = "started" \/ (main.pc = "post" /\ t < main.n)) =>
                (stage[t] # "none" /\ (stage[t] = "wait" => m_semaphore[t] > 0)))
    /\ [][\A t \in DOMAIN stage :
            /\ stage[t] \notin {"none", "wait"} =>
                  (m_irb'[t] = m_irb[t] /\ m_orb'[t] = m_orb[t])
            /\ (stage[t] = "loop" /\ main.pc \in {"post", "started"}
                    /\ main'.pc \in {"post", "started"} /\ stage'[t] # "loop") =>
                  (m_running /\ stage'[t] \in {"produce", "read"})]_vars
    /\ \A t \in 0 .. MaxStages - 1 :
          (t \in DOMAIN stage /\ stage[t] = "wait" /\ m_semaphore[t] > 0
                /\ main.pc \in {"post", "started"})
            ~> (t \in DOMAIN stage =>
                    (stage[t] \in {"produce", "read"} \/ main.pc \notin {"post", "started"}))

\* C17 witness: start() has returned, no stop() has been called, and each of
\* the three stages is inside its stage function, the last two with a read in
\* flight on the queue wired to them.
C17_Witness ==
    /\ m_size = MaxStages
    /\ main.pc = "started"
    /\ m_running
    /\ stage[0] = "produce"
    /\ \A t \in 1 .. m_size - 1 :
          stage[t] = "read" /\ th[t].op = "read" /\ th[t].q = t - 1

\* C18: while start() has been called and stop() has not, m_running is true
\* and no queue is cancelled, whatever the stage functions have returned.  The
\* step by which a stage function returns false ends the loop of that stage's
\* thread and changes nothing else: not m_running, not a queue, not another
\* stage or its call in flight.  Every other thread whose loop has not ended
\* can take its next step, unless it is parked in a read of its input queue,
\* which then is empty or about to be posted by its writer: a stage before a
\* dead one goes on writing and a write that finds the queue full adds one to
\* dropped.
C18_FalseEndsOneStage ==
    /\ []((main.pc \in {"post", "started"}) =>
            /\ m_running
            /\ xc.pc = "idle"
            /\ \A q \in Queues : ~m_is_reading_cancelled[q] /\ ~m_is_writing_cancelled[q])
    /\ [][\A t \in DOMAIN stage :
            (stage[t] \in {"produce", "read"} /\ th[t].pc = "idle" /\ stage'[t] = "done"
                    /\ main.pc \in {"post", "started"}) =>
                /\ m_running' /\ main' = main
                /\ m_semaphore' = m_semaphore
                /\ rbvars' = rbvars
                /\ th' = th
                /\ \A u \in DOMAIN stage \ {t} : stage'[u] = stage[u]]_vars
    /\ [](main.pc = "started" =>
            \A u \in DOMAIN stage :
                stage[u] # "done" =>
                    \/ ENABLED StageNext(u)
                    \/ /\ th[u].pc = "r_wait"
                       /\ th[u].q = m_irb[u]
                       /\ \/ m_produced[th[u].q] = m_consumed[th[u].q]
                          \/ \E w \in Threads : th[w].pc = "w_post" /\ th[w].q = th[u].q)
    /\ [][\A t \in DOMAIN stage :
            (th[t].pc = "w_dropped" /\ th'[t].pc # "w_dropped") =>
                /\ m_dropped'[th[t].q] = m_dropped[th[t].q] + 1
                /\ m_produced'[th[t].q] = m_produced[th[t].q]
                /\ th'[t].ret = WOULD_BLOCK]_vars

\* C18 witness: in a pipeline of three stages that has not been stopped the
\* middle stage's function has returned false; the first stage, still in its
\* loop, has since had a write dropped on the full queue 0, and the last stage
\* is parked in its read of the empty queue 1.
C18_Witness ==
    /\ m_size = MaxStages
    /\ main.pc = "started"
    /\ m_running
    /\ stage[1] = "done"
    /\ stage[0] \notin {"done", "wait"}
    /\ m_dropped[0] >= 1
    /\ m_produced[0] - m_consumed[0] = m_capacity[0]
    /\ th[2].pc = "r_wait" /\ ~m_reading_semaphore[1]
    /\ m_produced[1] = m_consumed[1]

\* C19: a write a stage makes on a queue of the pipeline is never at
\* m_writing_semaphore.wait() nor in the cancel path behind it; at every
\* moment of the call the writing thread has a step of its own to take,
\* whatever the reader of the queue is doing, and each of its steps brings it
\* nearer to the return, which comes after five steps at most.  When the
\* write finds no free element it goes to the drop: nothing is stored in the
\* buffer, produced is left alone, dropped grows by 1 and the call returns
\* WOULD_BLOCK.
C19_PipelineWriteNeverWaits ==
    /\ [](\A t \in Threads :
            th[t].op = "write" =>
                /\ th[t].q = m_orb[t]
                /\ m_flags[th[t].q] = RINGBUFFER_RD_BLOCKING_WR_NONBLOCKING
                /\ th[t].pc \in {"w_load_produced", "w_load_consumed", "w_xfer",
                                 "w_store", "w_post", "w_dropped"}
                /\ ENABLED WriteStep(t))
    /\ [][LET Rank(pc) == CASE pc = "w_load_produced" -> 5
                            [] pc = "w_load_consumed" -> 4
                            [] pc = "w_xfer" -> 3
                            [] pc = "w_store" -> 2
                            [] pc = "w_post" -> 1
                            [] pc = "w_dropped" -> 1
                            [] pc = "idle" -> 0
                            [] OTHER -> 6
          IN  \A t \in Threads :
                (th[t].op = "write" /\ th'[t] # th[t]) =>
                    Rank(th'[t].pc) < Rank(th[t].pc)]_vars
    /\ [][\A t \in Threads :
            (th[t].pc = "w_load_consumed" /\ th'[t] # th[t]
                /\ m_capacity[th[t].q] - (th[t].produced - m_consumed[th[t].q]) = 0) =>
                th'[t].pc = "w_dropped"]_vars
    /\ [][\A t \in Threads :
            (th[t].pc = "w_dropped" /\ th'[t] # th[t]) =>
                /\ th'[t].pc = "idle"
                /\ th'[t].ret = WOULD_BLOCK
                /\ m_dropped'[th[t].q] = m_dropped[th[t].q] + 1
                /\ m_produced'[th[t].q] = m_produced[th[t].q]
                /\ m_buffer'[th[t].q] = m_buffer[th[t].q]
                /\ accepted'[th[t].q] = accepted[th[t].q]]_vars

\* C19 witness: the middle stage's write has found queue 1 full while the
\* last stage, which has not read it, is no longer running, and is about to
\* be dropped; queue 1 has dropped nothing yet.
C19_Witness ==
    /\ m_size = MaxStages
    /\ th[1].op = "write" /\ th[1].pc = "w_dropped" /\ th[1].q = 1
    /\ m_produced[1] - m_consumed[1] = m_capacity[1]
    /\ m_dropped[1] = 0
    /\ stage[2] = "done"

C21_NonBlockingIsLockless ==
    /\ []((m_flags[TheQueue] = RINGBUFFER_RD_NONBLOCKING_WR_NONBLOCKING) =>
            \A t \in Threads :
                /\ th[t].pc \in {"idle", "w_load_produced", "w_load_consumed", "w_dropped",
                                 "w_xfer_split", "w_xfer", "w_xfer_failed", "w_store",
                                 "r_load_produced", "r_load_consumed",
                                 "r_xfer_split", "r_xfer", "r_xfer_failed", "r_store"}
                /\ th[t].op = "write" => ENABLED WriteStep(t)
                /\ th[t].op = "read" => ENABLED ReadStep(t))
    /\ [][(m_flags[TheQueue] = RINGBUFFER_RD_NONBLOCKING_WR_NONBLOCKING) =>
            LET Rank(pc) == CASE pc \in {"w_load_produced", "r_load_produced"} -> 6
                              [] pc \in {"w_load_consumed", "r_load_consumed"} -> 5
                              [] pc \in {"w_xfer_split", "r_xfer_split"} -> 4
                              [] pc \in {"w_xfer", "r_xfer"} -> 3
                              [] pc \in {"w_store", "r_store"} -> 1
                              [] pc \in {"w_xfer_failed", "r_xfer_failed", "w_dropped"} -> 1
                              [] pc = "idle" -> 0
                              [] OTHER -> 7
            IN  /\ m_writing_semaphore' = m_writing_semaphore
                /\ m_reading_semaphore' = m_reading_semaphore
                /\ m_is_writing_cancelled' = m_is_writing_cancelled
                /\ m_is_reading_cancelled' = m_is_reading_cancelled
                /\ \A t \in Threads :
                      (th[t].pc # "idle" /\ th'[t] # th[t]) =>
                          Rank(th'[t].pc) < Rank(th[t].pc)]_vars

\* C21 witness: on the ring buffer with both sides non-blocking the producer
\* is about to publish a write that wrapped around the end of the storage
\* while the consumer is in the middle of the loads of a read, and no
\* semaphore has been posted or taken since construction.
C21_Witness ==
    /\ m_flags[TheQueue] = RINGBUFFER_RD_NONBLOCKING_WR_NONBLOCKING
    /\ th[ProducerThread].pc = "w_store"
    /\ th[ProducerThread].split > 0
    /\ th[ConsumerThread].pc = "r_load_consumed"
    /\ m_writing_semaphore[TheQueue] /\ ~m_reading_semaphore[TheQueue]

\* C22: calls made one at a time.  A read that is at its wait on the reading
\* semaphore once cancel(CONSUMER) has set the cancel flag eventually returns
\* OPERATION_CANCELLED, clearing the flag as it does.  From the moment the
\* read is at its wait to its return no step but a step of a write changes
\* produced, consumed, dropped or the storage.  When the four calls made are
\* a cancel(CONSUMER), the read it cancelled, a write of one element and a
\* read of one element, the write returns 1 and the last read returns 1 with
\* the element written.
C22_CancelWakesParkedRead ==
    /\ (th[ConsumerThread].pc = "r_wait" /\ m_is_reading_cancelled[TheQueue])
          ~> (th[ConsumerThread].pc = "idle"
                /\ th[ConsumerThread].ret = OPERATION_CANCELLED)
    /\ [][(th[ConsumerThread].pc \in {"r_wait", "r_cancel_test", "r_cancel_clear"}
                /\ th'[ProducerThread] = th[ProducerThread]) =>
             /\ m_produced' = m_produced
             /\ m_consumed' = m_consumed
             /\ m_dropped' = m_dropped
             /\ m_buffer' = m_buffer
             /\ delivered' = delivered]_vars
    /\ [][(th[ConsumerThread].pc = "r_cancel_clear"
                /\ th'[ConsumerThread] # th[ConsumerThread]) =>
             /\ th'[ConsumerThread].pc = "idle"
             /\ th'[ConsumerThread].ret = OPERATION_CANCELLED
             /\ ~m_is_reading_cancelled'[TheQueue]]_vars
    /\ []((/\ logged /\ ncalls = 4
           /\ \A t \in Threads : th[t].pc = "idle"
           /\ ncancelled[CONSUMER] = 1
           /\ log[1].op = "write" /\ log[1].n = 1
           /\ log[2].op = "read" /\ log[2].n = 1) =>
             /\ log[1].ret = 1
             /\ log[2].ret = 1
             /\ log[2].data[0] = log[1].data[0]
             /\ m_produced[TheQueue] = 1 /\ m_consumed[TheQueue] = 1)

\* C22 witness: after a cancel(CONSUMER) and the read it made return
\* OPERATION_CANCELLED, a write of one element and a read of one element have
\* returned 1, the read with the element written; nothing was dropped.
C22_Witness ==
    /\ logged /\ ncalls = 4
    /\ \A t \in Threads : th[t].pc = "idle"
    /\ ncancelled[CONSUMER] = 1
    /\ ~m_is_reading_cancelled[TheQueue]
    /\ log[1].op = "write" /\ log[1].n = 1 /\ log[1].ret = 1
    /\ log[2].op = "read" /\ log[2].n = 1 /\ log[2].ret = 1
    /\ log[2].data[0] = log[1].data[0] /\ log[2].data[0] # Empty
    /\ m_dropped[TheQueue] = 0

\* C23 as stated: with one producer and one consumer and no reset, every
\* call of get_counters, whichever thread makes it, returns OK with produced
\* and consumed such that 0 <= produced - consumed <= capacity, and never
\* INTERNAL_ERROR.
C23_GetCountersAlwaysOK ==
    [][\A t \in Threads :
          (th[t].op = "get_counters" /\ th'[t].pc = "idle") =>
              /\ th'[t].ret = OK
              /\ 0 <= th'[t].data[1] - th'[t].data[2]
              /\ th'[t].data[1] - th'[t].data[2] <= m_capacity[TheQueue]]_vars

\* C24 as stated: calls made one at a time.  A cancel(CONSUMER) made while no
\* read is parked is not kept: a read that finds the buffer empty and goes to
\* wait finds the cancel flag cleared.
C24_CancelNotKept ==
    [][\A t \in Threads :
          (th[t].pc = "r_load_consumed" /\ th'[t].pc = "r_wait") =>
              ~m_is_reading_cancelled[th[t].q]]_vars

\* C24: calls made one at a time.  A cancel(CONSUMER) on a read-blocking ring
\* buffer is kept until a read takes it: the cancel flag is cleared by no step
\* but the one by which a read returns OPERATION_CANCELLED, and that step
\* clears it; while the flag is set and cancel() has returned, the reading
\* semaphore is ready unless a read has just passed it on its way to that
\* return.  So a read that begins on an empty buffer after a cancel() made
\* while nothing was parked does not park: it passes the semaphore at once
\* and eventually returns OPERATION_CANCELLED.
C24_CancelKeptForNextRead ==
    /\ [][\A q \in Queues :
            (m_is_reading_cancelled[q] /\ ~m_is_reading_cancelled'[q]) =>
                \E t \in Threads :
                    /\ th[t].pc = "r_cancel_clear" /\ th[t].q = q
                    /\ th'[t].pc = "idle" /\ th'[t].ret = OPERATION_CANCELLED]_vars
    /\ [][\A t \in Threads :
            (th[t].pc = "r_cancel_clear" /\ th'[t] # th[t]) =>
                ~m_is_reading_cancelled'[th[t].q]]_vars
    /\ []((m_is_reading_cancelled[TheQueue] /\ xc.pc = "idle") =>
            \/ m_reading_semaphore[TheQueue]
            \/ th[ConsumerThread].pc \in {"r_cancel_test", "r_cancel_clear"})
    /\ (/\ th[ConsumerThread].pc = "r_load_produced"
        /\ m_is_reading_cancelled[TheQueue] /\ xc.pc = "idle"
        /\ m_produced[TheQueue] = m_consumed[TheQueue])
          ~> (th[ConsumerThread].pc = "idle"
                /\ th[ConsumerThread].ret = OPERATION_CANCELLED)

\* C24 witness: cancel(CONSUMER) was called and has returned while no read was
\* in flight; a read that began after it on the empty buffer is about to find
\* nothing to read and go to the wait, with the flag still set and the
\* semaphore ready.
C24_Witness ==
    /\ ncalls = 1 /\ log[2].op = "cancel" /\ log[2].role = CONSUMER
    /\ xc.pc = "idle"
    /\ th[ConsumerThread].pc = "r_load_consumed"
    /\ th[ProducerThread].pc = "idle"
    /\ m_produced[TheQueue] = 0 /\ m_consumed[TheQueue] = 0
    /\ m_is_reading_cancelled[TheQueue]
    /\ m_reading_semaphore[TheQueue]

\* C25: calls made one at a time, moving elements, no reset.  Between calls
\* slot i of the storage holds the k-th accepted element (k from 0) when k is
\* the one index with consumed <= k < produced and k mod capacity = i, and a
\* moved-from element when there is none: an element is stored in slot
\* k mod capacity and is moved out of that slot by the read that delivers it;
\* what has been delivered is the first consumed elements accepted.  A
\* transfer of count elements from index idx is split exactly when
\* idx + count > capacity, into capacity - idx elements at idx and the other
\* count - (capacity - idx) at index 0, the caller's elements being taken in
\* order: when a write is about to publish, its j-th element is in slot
\* (produced + j) mod capacity, and when a read is about to retire, its j-th
\* element is the (consumed + j)-th accepted.
C25_SlotIsIndexModCapacity ==
    /\ []((xc.pc = "idle" /\ \A t \in Threads : th[t].pc = "idle" \/ Parked(th[t])) =>
            \A q \in Queues :
                /\ Len(accepted[q]) = m_produced[q]
                /\ Len(delivered[q]) = m_consumed[q]
                /\ IsPrefix(delivered[q], accepted[q])
                /\ \A i \in 0 .. m_capacity[q] - 1 :
                      LET live == {k \in m_consumed[q] .. m_produced[q] - 1 :
                                      k % m_capacity[q] = i}
                      IN  /\ Cardinality(live) <= 1
                          /\ \A k \in live : m_buffer[q][i] = accepted[q][k + 1]
                          /\ live = {} => m_buffer[q][i] = Empty)
    /\ [](\A t \in Threads :
            LET r == th[t]
                C == m_capacity[r.q]
                start == IF r.op = "write" THEN r.produced ELSE r.consumed
            IN  /\ r.pc \in {"w_xfer_split", "r_xfer_split"} =>
                      /\ r.idx = start % C
                      /\ r.idx + r.count > C
                      /\ r.split = C - r.idx
                      /\ r.off = 0 /\ r.remaining = r.count
                /\ (r.pc \in {"w_xfer", "r_xfer"} /\ r.split > 0) =>
                      /\ r.idx = 0
                      /\ r.off = r.split
                      /\ r.remaining = r.count - (C - (start % C))
                /\ (r.pc \in {"w_xfer", "r_xfer"} /\ r.split = 0) =>
                      /\ r.idx = start % C
                      /\ r.idx + r.count <= C
                      /\ r.off = 0 /\ r.remaining = r.count
                /\ r.pc = "w_store" =>
                      \A j \in 0 .. r.count - 1 :
                          m_buffer[r.q][(r.produced + j) % C] = r.req[j + 1]
                /\ r.pc = "r_store" =>
                      \A j \in 0 .. r.count - 1 :
                          /\ r.data[j] = accepted[r.q][r.consumed + j + 1]
                          /\ m_buffer[r.q][(r.consumed + j) % C] = Empty)

\* C25 witness: after writes and reads that have taken the counters to the
\* last slot of the storage, a write of several elements has wrapped around
\* its end, and the read that followed, split at the same place, has moved
\* every one of them out and is about to retire them in the order written,
\* leaving the storage empty.
C25_Witness ==
    /\ th[ConsumerThread].pc = "r_store"
    /\ th[ConsumerThread].split > 0
    /\ th[ConsumerThread].count > th[ConsumerThread].split
    /\ th[ConsumerThread].consumed % Capacity = Capacity - 1
    /\ m_produced[TheQueue] = th[ConsumerThread].consumed + th[ConsumerThread].count
    /\ m_produced[TheQueue] > Capacity
    /\ \A j \in 0 .. th[ConsumerThread].count - 1 :
          th[ConsumerThread].data[j] = th[ConsumerThread].consumed + j + 1
    /\ \A i \in 0 .. Capacity - 1 : m_buffer[TheQueue][i] = Empty
\* C26 (as stated): over writes, reads, cancel, reset(PRODUCER) and
\* reset(CONSUMER), that is every step but those of reset(NONE), neither
\* produced nor consumed ever decreases.
C26_CountersMonotonic ==
    [][(\A t \in Threads : ~(th[t].op = "reset" /\ th[t].kind = NONE))
         => /\ m_produced'[TheQueue] >= m_produced[TheQueue]
            /\ m_consumed'[TheQueue] >= m_consumed[TheQueue]]_vars

\* C26 (amended): over the same operations consumed never decreases, and
\* produced decreases in one step only, the store of reset(PRODUCER), which
\* sets it to the value of consumed and so never below consumed; writes,
\* reads, cancel and reset(CONSUMER) never lower either counter.
C26_OnlyProducerResetLowersProduced ==
    [][(\A t \in Threads : ~(th[t].op = "reset" /\ th[t].kind = NONE))
         => /\ m_consumed'[TheQueue] >= m_consumed[TheQueue]
            /\ m_produced'[TheQueue] >= m_consumed[TheQueue]
            /\ m_produced'[TheQueue] < m_produced[TheQueue]
                  => /\ th[ProducerThread].pc = "reset_store_produced"
                     /\ th[ProducerThread].kind = PRODUCER
                     /\ m_produced'[TheQueue] = m_consumed[TheQueue]
            /\ (th[ProducerThread].pc = "reset_store_produced"
                /\ th'[ProducerThread].pc # "reset_store_produced")
                  => m_produced'[TheQueue] = m_consumed[TheQueue]]_vars

\* C26 witness: reset(PRODUCER), called after some elements were read and
\* while others were still queued, has stored consumed into produced: the
\* counters say empty and the storage still holds the discarded elements.
C26_Witness ==
    /\ th[ProducerThread].pc = "reset_store_dropped"
    /\ th[ProducerThread].kind = PRODUCER
    /\ m_consumed[TheQueue] > 0
    /\ m_produced[TheQueue] = m_consumed[TheQueue]
    /\ \E i \in 0 .. Capacity - 1 : m_buffer[TheQueue][i] # Empty

\* C27: a write() or read() called with a count of 0 returns 0 in the step
\* that calls it and leaves the ring buffer as it was: counters, dropped,
\* storage, both semaphores and both cancel flags; no call with a count of 0 is
\* ever in flight, so none parks and none takes a cancellation.
C27_ZeroCountChangesNothing ==
    /\ [](\A t \in Threads :
            th[t].pc # "idle" /\ th[t].op \in {"write", "read"} => th[t].n > 0)
    /\ [][(/\ ncalls' = ncalls + 1
           /\ log'[2].op \in {"write", "read"}
           /\ log'[2].n = 0)
            => /\ \A t \in Threads : th[t].pc = "idle" \/ th'[t] = th[t]
               /\ log'[2].ret = 0
               /\ UNCHANGED <<rbvars, xc, accepted, delivered, ncancel, ncancelled>>]_vars

\* C27 witness: on a full buffer whose write side is non-blocking and whose
\* read side is blocking, with a cancellation of the reader pending, a write
\* of 0 and then a read of 0 have each returned 0: nothing was dropped and
\* the cancellation is still pending.
C27_Witness ==
    /\ m_flags[TheQueue] = RINGBUFFER_RD_BLOCKING_WR_NONBLOCKING
    /\ m_produced[TheQueue] - m_consumed[TheQueue] = Capacity
    /\ m_dropped[TheQueue] = 0
    /\ m_is_reading_cancelled[TheQueue]
    /\ m_reading_semaphore[TheQueue]
    /\ log[1].op = "write" /\ log[1].n = 0 /\ log[1].ret = 0
    /\ log[2].op = "read" /\ log[2].n = 0 /\ log[2].ret = 0
    /\ \A t \in Threads : th[t].pc = "idle"

\* C28 (as stated): a step of write() changes nothing of the ring buffer but
\* produced, dropped, the storage and the reader semaphore, and the writer
\* cancel flag by clearing it; a step of read() nothing but consumed and the
\* writer semaphore, the reader cancel flag by clearing it, and storage slots
\* by emptying them; reset(PRODUCER) nothing but produced and dropped,
\* reset(CONSUMER) nothing but consumed.
C28_OperationFrames ==
    [][\A t \in Threads :
         LET op == IF th[t].pc = "idle" THEN th'[t].op ELSE th[t].op
             q == TheQueue
         IN  th'[t] # th[t] =>
             /\ op = "write" =>
                  /\ UNCHANGED <<m_capacity, m_flags, m_consumed, m_is_reading_cancelled>>
                  /\ UNCHANGED m_writing_semaphore
                  /\ m_is_writing_cancelled'[q] # m_is_writing_cancelled[q]
                        => ~m_is_writing_cancelled'[q]
             /\ op = "read" =>
                  /\ UNCHANGED <<m_capacity, m_flags, m_produced, m_dropped,
                                 m_is_writing_cancelled>>
                  /\ UNCHANGED m_reading_semaphore
                  /\ m_is_reading_cancelled'[q] # m_is_reading_cancelled[q]
                        => ~m_is_reading_cancelled'[q]
                  /\ \A i \in 0 .. Capacity - 1 :
                        m_buffer'[q][i] # m_buffer[q][i] => m_buffer'[q][i] = Empty
             /\ op = "reset" /\ (IF th[t].pc = "idle" THEN th'[t].kind ELSE th[t].kind) = PRODUCER =>
                  UNCHANGED <<m_capacity, m_flags, m_consumed, m_buffer,
                              m_writing_semaphore, m_reading_semaphore,
                              m_is_writing_cancelled, m_is_reading_cancelled>>
             /\ op = "reset" /\ (IF th[t].pc = "idle" THEN th'[t].kind ELSE th[t].kind) = CONSUMER =>
                  UNCHANGED <<m_capacity, m_flags, m_produced, m_dropped, m_buffer,
                              m_writing_semaphore, m_reading_semaphore,
                              m_is_writing_cancelled, m_is_reading_cancelled>>]_vars

\* C28 (amended): the same frames, except that a blocking call also takes its
\* own semaphore when its wait() passes: a write may take the writer semaphore
\* and a read the reader semaphore, and neither ever posts its own.
C28_OperationFramesWithOwnWait ==
    [][\A t \in Threads :
         LET op == IF th[t].pc = "idle" THEN th'[t].op ELSE th[t].op
             q == TheQueue
         IN  th'[t] # th[t] =>
             /\ op = "write" =>
                  /\ UNCHANGED <<m_capacity, m_flags, m_consumed, m_is_reading_cancelled>>
                  /\ m_writing_semaphore'[q] # m_writing_semaphore[q]
                        => th[t].pc = "w_wait" /\ ~m_writing_semaphore'[q]
                  /\ m_is_writing_cancelled'[q] # m_is_writing_cancelled[q]
                        => ~m_is_writing_cancelled'[q]
             /\ op = "read" =>
                  /\ UNCHANGED <<m_capacity, m_flags, m_produced, m_dropped,
                                 m_is_writing_cancelled>>
                  /\ m_reading_semaphore'[q] # m_reading_semaphore[q]
                        => th[t].pc = "r_wait" /\ ~m_reading_semaphore'[q]
                  /\ m_is_reading_cancelled'[q] # m_is_reading_cancelled[q]
                        => ~m_is_reading_cancelled'[q]
                  /\ \A i \in 0 .. Capacity - 1 :
                        m_buffer'[q][i] # m_buffer[q][i] => m_buffer'[q][i] = Empty
             /\ op = "reset" /\ (IF th[t].pc = "idle" THEN th'[t].kind ELSE th[t].kind) = PRODUCER =>
                  UNCHANGED <<m_capacity, m_flags, m_consumed, m_buffer,
                              m_writing_semaphore, m_reading_semaphore,
                              m_is_writing_cancelled, m_is_reading_cancelled>>
             /\ op = "reset" /\ (IF th[t].pc = "idle" THEN th'[t].kind ELSE th[t].kind) = CONSUMER =>
                  UNCHANGED <<m_capacity, m_flags, m_produced, m_dropped, m_buffer,
                              m_writing_semaphore, m_reading_semaphore,
                              m_is_writing_cancelled, m_is_reading_cancelled>>]_vars

\* C28 witness: a blocking write that found the buffer full waited, was woken
\* by the read that made room, and has taken the writer semaphore: it holds
\* no element yet and consumed is what the read left.
C28_Witness ==
    /\ ~test(TheQueue, RINGBUFFER_NONBLOCKING_WRITE_SHIFT)
    /\ th[ProducerThread].pc = "w_cancel_test"
    /\ ~m_writing_semaphore[TheQueue]
    /\ ~m_is_writing_cancelled[TheQueue]
    /\ m_consumed[TheQueue] > 0
    /\ m_produced[TheQueue] = Capacity

\* C29: every step of pipeline::stop() (the store to the run flag, each
\* cancel(CONSUMER) and its post, and the return) leaves produced, consumed,
\* dropped, the storage, the writer cancel flag and the writer semaphore of
\* every queue as they were, and the published and delivered elements with
\* them; of the reader cancel flag and the reader semaphore it changes only
\* those of the queue it is cancelling, by setting them; the run flag it
\* only clears.
C29_StopFrame ==
    [][((main.pc = "started" /\ main'.pc = "stop")
        \/ (main.pc = "stop" /\ (main' # main \/ xc' # xc)))
         => /\ UNCHANGED <<m_capacity, m_flags, m_produced, m_consumed, m_dropped,
                           m_buffer, m_is_writing_cancelled, m_writing_semaphore,
                           accepted, delivered, th, stage, m_semaphore, m_size,
                           m_irb, m_orb>>
            /\ m_running' # m_running => main.pc = "started" /\ ~m_running'
            /\ \A q \in DOMAIN m_flags :
                  /\ m_is_reading_cancelled'[q] # m_is_reading_cancelled[q]
                        => q = main.n /\ m_is_reading_cancelled'[q]
                  /\ m_reading_semaphore'[q] # m_reading_semaphore[q]
                        => q = xc.q /\ m_reading_semaphore'[q]
            /\ (main.pc = "stop" /\ main'.n = main.n + 1)
                  => m_is_reading_cancelled'[main.n] /\ xc'.pc = "x_post_reading"
            /\ (xc.pc = "x_post_reading" /\ xc'.pc = "idle")
                  => m_reading_semaphore'[xc.q]]_vars

\* C29 witness: stop() has returned with the run flag cleared and every queue
\* cancelled on its reader side, while a queue still holds an element that
\* was published before and has not been delivered.
C29_Witness ==
    /\ main.pc = "join"
    /\ ~m_running
    /\ m_size > 1
    /\ \A q \in 0 .. m_size - 2 : m_is_reading_cancelled[q] /\ m_reading_semaphore[q]
    /\ \E q \in 0 .. m_size - 2 :
          /\ m_produced[q] > m_consumed[q]
          /\ Len(accepted[q]) > Len(delivered[q])
          /\ \E i \in 0 .. Capacity - 1 : m_buffer[q][i] # Empty

\* C30: a cancel(PRODUCER) on a ring buffer whose write side is non-blocking,
\* a cancel(CONSUMER) on one whose read side is non-blocking, and a
\* cancel(NONE) on any, return having changed nothing: no cancel flag, no
\* semaphore, no counter, no slot; the cancel flag of a non-blocking side is
\* never set and no call on that side ever returns OPERATION_CANCELLED.
C30_CancelOnNonBlockingIsNoOp ==
    /\ [][(/\ ncalls' = ncalls + 1
           /\ log'[2].op = "cancel"
           /\ \/ log'[2].role = NONE
              \/ log'[2].role = PRODUCER /\ test(TheQueue, RINGBUFFER_NONBLOCKING_WRITE_SHIFT)
              \/ log'[2].role = CONSUMER /\ test(TheQueue, RINGBUFFER_NONBLOCKING_READ_SHIFT))
            => UNCHANGED <<rbvars, xc, th, accepted, delivered, ncancel, ncancelled>>]_vars
    /\ [](test(TheQueue, RINGBUFFER_NONBLOCKING_WRITE_SHIFT)
            => /\ ~m_is_writing_cancelled[TheQueue]
               /\ ncancelled[PRODUCER] = 0
               /\ th[ProducerThread].ret # OPERATION_CANCELLED
               /\ \A i \in 1 .. 2 : log[i].op = "write" => log[i].ret # OPERATION_CANCELLED)
    /\ [](test(TheQueue, RINGBUFFER_NONBLOCKING_READ_SHIFT)
            => /\ ~m_is_reading_cancelled[TheQueue]
               /\ ncancelled[CONSUMER] = 0
               /\ th[ConsumerThread].ret # OPERATION_CANCELLED
               /\ \A i \in 1 .. 2 : log[i].op = "read" => log[i].ret # OPERATION_CANCELLED)

\* C30 witness: on a buffer with both sides non-blocking, cancel(CONSUMER)
\* was called and the read that followed found the buffer empty and returned
\* WOULD_BLOCK, not OPERATION_CANCELLED; no flag is set and the reader
\* semaphore was not posted.
C30_Witness ==
    /\ m_flags[TheQueue] = RINGBUFFER_RD_NONBLOCKING_WR_NONBLOCKING
    /\ log[1].op = "cancel" /\ log[1].role = CONSUMER
    /\ log[2].op = "read" /\ log[2].ret = WOULD_BLOCK
    /\ ~m_is_reading_cancelled[TheQueue]
    /\ ~m_reading_semaphore[TheQueue]
    /\ xc.pc = "idle"
    /\ \A t \in Threads : th[t].pc = "idle"

\* C31 (as stated): with reset(PRODUCER) called by the producer between its
\* writes and reset(CONSUMER) by the consumer between its reads, each while
\* the other side may be inside a call, 0 <= produced - consumed <= capacity
\* holds in every state.
C31_ResetKeepsOccupancy ==
    /\ m_produced[TheQueue] >= m_consumed[TheQueue]
    /\ m_produced[TheQueue] - m_consumed[TheQueue] <= m_capacity[TheQueue]

\* C32: with one producer and one consumer running concurrently, no reset and
\* no failing callback, no write() and no read() returns INTERNAL_ERROR: when
\* a call is about to take its second load the pair it will hold passes the
\* checks of get_counters, and once it has planned its transfer the room
\* (resp. the data) it counted, and the count it clamped to it, is no more
\* than the room (resp. the data) there is at that moment.
C32_SnapshotNeverFails ==
    LET w == th[ProducerThread]
        r == th[ConsumerThread]
        q == TheQueue
    IN  /\ w.ret # INTERNAL_ERROR
        /\ r.ret # INTERNAL_ERROR
        /\ w.pc = "w_load_consumed"
              => get_counters(w.produced, m_consumed[q], m_capacity[q]) = OK
        /\ r.pc = "r_load_consumed"
              => get_counters(r.produced, m_consumed[q], m_capacity[q]) = OK
        /\ w.pc \in {"w_xfer_split", "w_xfer", "w_store"}
              => /\ m_capacity[q] - (w.produced - w.consumed)
                       <= m_capacity[q] - (m_produced[q] - m_consumed[q])
                 /\ w.count <= m_capacity[q] - (m_produced[q] - m_consumed[q])
        /\ r.pc \in {"r_xfer_split", "r_xfer", "r_store"}
              => /\ r.produced - r.consumed <= m_produced[q] - m_consumed[q]
                 /\ r.count <= m_produced[q] - m_consumed[q]

\* C32 witness: the consumer is inside a transfer planned from a snapshot
\* the producer has since overtaken: a write published an element after the
\* consumer loaded produced, and the producer, in its next write, is about
\* to load consumed while the read has not retired anything yet.
C32_Witness ==
    /\ th[ConsumerThread].pc = "r_xfer"
    /\ th[ConsumerThread].produced < m_produced[TheQueue]
    /\ th[ConsumerThread].consumed = m_consumed[TheQueue]
    /\ th[ProducerThread].pc = "w_load_consumed"
    /\ th[ProducerThread].produced = m_produced[TheQueue]

\* C33: with one producer and one consumer interleaved in any way, no reset,
\* and callbacks that may fail part-way: a write in its transfer holds the
\* current produced and a count that ends at or before consumed + capacity,
\* a read in its transfer holds the current consumed and a count that ends at
\* or before produced, so the slots of the two transfers never meet; a step
\* of write() changes only slots k mod capacity with produced <= k <
\* consumed + capacity, a step of read() only slots with consumed <= k <
\* produced; and every published element that no read has started to take
\* is still in its slot.
C33_TransfersNeverMeet ==
    /\ [](LET q == TheQueue
              C == m_capacity[q]
              w == th[ProducerThread]
              r == th[ConsumerThread]
              InWrite == w.pc \in {"w_xfer_split", "w_xfer", "w_xfer_failed", "w_store"}
              InRead == r.pc \in {"r_xfer_split", "r_xfer", "r_xfer_failed", "r_store"}
              WriteSlots == {k % C : k \in w.produced .. w.produced + w.count - 1}
              ReadSlots == {k % C : k \in r.consumed .. r.consumed + r.count - 1}
          IN  /\ InWrite => /\ w.produced = m_produced[q]
                            /\ w.count >= 1
                            /\ w.produced + w.count <= m_consumed[q] + C
              /\ InRead => /\ r.consumed = m_consumed[q]
                           /\ r.count >= 1
                           /\ r.consumed + r.count <= m_produced[q]
              /\ InWrite /\ InRead => WriteSlots \cap ReadSlots = {}
              /\ \A k \in m_consumed[q] .. m_produced[q] - 1 :
                    \/ m_buffer[q][k % C] = accepted[q][k + 1]
                    \/ InRead /\ k < r.consumed + r.count /\ m_buffer[q][k % C] = Empty)
    /\ [][\A i \in 0 .. Capacity - 1 :
             m_buffer'[TheQueue][i] # m_buffer[TheQueue][i]
                => \/ /\ th'[ProducerThread] # th[ProducerThread]
                      /\ \E k \in m_produced[TheQueue] ..
                                  m_consumed[TheQueue] + Capacity - 1 :
                            i = k % Capacity
                   \/ /\ th'[ConsumerThread] # th[ConsumerThread]
                      /\ \E k \in m_consumed[TheQueue] .. m_produced[TheQueue] - 1 :
                            i = k % Capacity]_vars

\* C34: on a read-blocking ring buffer, a read that has found the buffer
\* empty and is at its wait, whether parked or not yet, while an element has
\* been published since, eventually returns with at least one element, or
\* with OPERATION_CANCELLED; and it is never parked on a semaphore that is
\* not ready while produced > consumed unless the write that published is
\* about to post.
C34_NoLostWakeup ==
    /\ (th[ConsumerThread].pc = "r_wait"
          /\ m_produced[TheQueue] > m_consumed[TheQueue])
          ~> (th[ConsumerThread].pc = "idle"
                /\ (th[ConsumerThread].ret >= 1
                      \/ th[ConsumerThread].ret = OPERATION_CANCELLED))
    /\ []((/\ th[ConsumerThread].pc = "r_wait"
           /\ ~m_reading_semaphore[TheQueue]
           /\ m_produced[TheQueue] > m_consumed[TheQueue])
            => th[ProducerThread].pc = "w_post")

\* C34 witness: the read loaded produced while the buffer was empty, a write
\* of one element was then published and posted, and only then did the read
\* load consumed and decide to wait: it is at its wait with data in the
\* buffer and the semaphore ready, the producer back from its write.
C34_Witness ==
    /\ ~test(TheQueue, RINGBUFFER_NONBLOCKING_READ_SHIFT)
    /\ th[ConsumerThread].pc = "r_wait"
    /\ th[ConsumerThread].produced = 0
    /\ m_produced[TheQueue] = 1
    /\ m_consumed[TheQueue] = 0
    /\ m_reading_semaphore[TheQueue]
    /\ ~m_is_reading_cancelled[TheQueue]
    /\ th[ProducerThread].pc = "idle"
    /\ th[ProducerThread].ret = 1

\* C35: on a ring buffer with both sides blocking, with a producer that
\* keeps writing, a consumer that keeps reading and no cancel, the producer
\* and the consumer are never both parked; every write begun returns a
\* positive count; and every read begun returns a positive count, unless the
\* producer has written the MaxVal elements of the model and the buffer is
\* empty.
C35_BlockingNeverDeadlocks ==
    /\ [](~(Parked(th[ProducerThread]) /\ Parked(th[ConsumerThread])))
    /\ [](\A t \in Threads : th[t].ret >= 0)
    /\ (th[ProducerThread].pc # "idle")
          ~> (th[ProducerThread].pc = "idle" /\ th[ProducerThread].ret >= 1)
    /\ (th[ConsumerThread].pc # "idle")
          ~> \/ th[ConsumerThread].pc = "idle" /\ th[ConsumerThread].ret >= 1
             \/ /\ Len(accepted[TheQueue]) = MaxVal
                /\ m_produced[TheQueue] = m_consumed[TheQueue]

\* C35 witness: the producer is parked on a full buffer, its semaphore not
\* ready, and the consumer, which was itself parked on the empty buffer
\* before, has retired an element and is about to post the writer semaphore.
C35_Witness ==
    /\ Parked(th[ProducerThread])
    /\ m_produced[TheQueue] - th[ConsumerThread].consumed = Capacity
    /\ th[ConsumerThread].pc = "r_post"
    /\ m_consumed[TheQueue] > th[ConsumerThread].consumed
    /\ ~m_reading_semaphore[TheQueue]

\* C36: for each role the calls that have returned OPERATION_CANCELLED are
\* never more than the cancel(role) calls that have set the flag so far; a
\* call returns OPERATION_CANCELLED only from the test that follows its wait,
\* and it is at its wait or at that test only after a snapshot that showed
\* the buffer empty (read) or full (write); a call whose snapshot showed
\* data (resp. room) goes on to its transfer and returns its count.
C36_CancelledAtMostOncePerCancel ==
    /\ [](\A role \in {PRODUCER, CONSUMER} : ncancelled[role] <= ncancel[role])
    /\ [](th[ConsumerThread].pc \in {"r_wait", "r_cancel_test", "r_cancel_clear"}
            => /\ th[ConsumerThread].produced = th[ConsumerThread].consumed
               /\ ~test(TheQueue, RINGBUFFER_NONBLOCKING_READ_SHIFT))
    /\ [](th[ProducerThread].pc \in {"w_wait", "w_cancel_test", "w_cancel_clear"}
            => /\ th[ProducerThread].produced - th[ProducerThread].consumed
                     = m_capacity[TheQueue]
               /\ ~test(TheQueue, RINGBUFFER_NONBLOCKING_WRITE_SHIFT))
    /\ [][\A t \in Threads :
            (th'[t] # th[t] /\ th'[t].pc = "idle" /\ th'[t].ret = OPERATION_CANCELLED)
               => th[t].pc \in {"w_cancel_clear", "r_cancel_clear"}]_vars
    /\ [][\A t \in Threads :
            (th[t].pc \in {"w_xfer_split", "w_xfer", "w_store", "w_post",
                           "r_xfer_split", "r_xfer", "r_store", "r_post"}
             /\ th'[t].pc = "idle")
               => th'[t].ret = th[t].count /\ th[t].count >= 1]_vars

\* C36 witness: one cancel(CONSUMER) was made and one read, which had found
\* the buffer empty and waited, has returned OPERATION_CANCELLED and cleared
\* the flag; an element written since is in the buffer.
C36_Witness ==
    /\ ncancel[CONSUMER] = 1
    /\ ncancelled[CONSUMER] = 1
    /\ th[ConsumerThread].pc = "idle"
    /\ th[ConsumerThread].ret = OPERATION_CANCELLED
    /\ ~m_is_reading_cancelled[TheQueue]
    /\ xc.pc = "idle"
    /\ m_produced[TheQueue] > m_consumed[TheQueue]

\* C37: once stop() has returned the run flag stays cleared, and from then
\* on no worker commits to an invocation of its stage function: a worker
\* that tests the flag ends its run(), a worker that has ended stays ended,
\* and a worker is about to call or inside its stage function only if it
\* already was, having read the flag as true before; when that invocation
\* returns the worker is back at the test.  So each worker begins at most
\* that one invocation.
C37_AtMostOneMoreInvocation ==
    /\ [](main.pc \in {"join", "joined"} => ~m_running)
    /\ [][main.pc \in {"join", "joined"}
            => \A t \in DOMAIN stage :
                  /\ (stage[t] = "loop" /\ stage'[t] # "loop") => stage'[t] = "done"
                  /\ stage[t] = "done" => stage'[t] = "done"
                  /\ stage'[t] \in {"produce", "read"} => stage'[t] = stage[t]
                  /\ stage'[t] = "write" => stage[t] \in {"read", "write"}
                  /\ (stage[t] = "write" /\ stage'[t] # "write") => stage'[t] = "loop"
                  /\ (stage[t] = "produce" /\ stage'[t] # "produce")
                        => stage'[t] \in {"loop", "done"}
                  /\ (stage[t] = "read" /\ stage'[t] # "read")
                        => stage'[t] \in {"write", "loop", "done"}
                  /\ (th[t].pc = "idle" /\ th'[t].pc # "idle")
                        => stage[t] \in {"produce", "read", "write"}]_vars

\* C37 witness: stop() has returned while a consuming worker, which read the
\* run flag as true before stop() cleared it, has not yet called its stage
\* function; another worker has already ended.
C37_Witness ==
    /\ main.pc = "join"
    /\ ~m_running
    /\ \E t \in DOMAIN stage :
          /\ t > 0
          /\ stage[t] = "read"
          /\ th[t].pc = "idle"
    /\ \E t \in DOMAIN stage : stage[t] = "done"

\* C38 (as stated): when no stop() is called after start(), whether or not a
\* stop() was called before it, no read of a stage returns
\* OPERATION_CANCELLED, no stage has ended by a cancelled read, and no
\* reader cancel flag is set once start() has been called.
C38_EarlyStopLeavesNothing ==
    main.pc \in {"post", "started"}
       => /\ \A q \in DOMAIN m_flags : ~m_is_reading_cancelled[q]
          /\ \A t \in DOMAIN stage : th[t].ret # OPERATION_CANCELLED
          /\ ncancelled[CONSUMER] = 0

\* C39 (as stated): in a running pipeline, for every queue the sequence of
\* elements the next stage has obtained from its reads is a subsequence,
\* in order and without repetition, of what the stage before tried to write,
\* and a prefix of the elements of the writes that returned 1.
C39_QueueLosesNothing ==
    \A q \in DOMAIN delivered :
        /\ IsSubsequence(delivered[q], Tried(q))
        /\ IsPrefix(delivered[q], accepted[q])

====
